---------------------------- MODULE Spec2Model ----------------------------
(***************************************************************************)
(* Model of the google-github-sync-bot reconcilers:                        *)
(*   - WorkspaceGitHubSync.syncMembers            (services/github-sync)   *)
(*   - WorkspaceAtlassianSync lifecycle checks    (services/atlassian-sync)*)
(*   - AtlassianApiClient.withRetry and its users (atlassian-api)          *)
(*   - WorkspaceAtlassianSync.getMostRecentActivity                        *)
(* Each part has its own specification over the shared variables:          *)
(*   SpecGH, SpecLC, SpecRetry, SpecAct.                                   *)
(***************************************************************************)
EXTENDS Integers, Sequences, FiniteSets, TLC

VARIABLES
    \* ---- WorkspaceGitHubSync and its collaborators
    removeStopList,   \* WorkspaceGitHubSync.removeStopList (set at construction)
    directory,        \* Google Workspace users, as the directory API lists them
    members,          \* logins of the GitHub organization's members
    invites,          \* logins of the GitHub organization's pending invitations
    syncResult,       \* outcome of the last syncMembers run, with the calls it made
    \* ---- WorkspaceAtlassianSync and its collaborators
    lc,               \* the reconciler instance: configuration and the two cache slots
    env,              \* what the directory and the tenant would answer to a live fetch
    now,              \* Date.now(), in seconds
    lcRun,            \* outcome of the last lifecycle check, with its reads and calls
    \* ---- AtlassianApiClient.withRetry
    rt,               \* one wrapped call: position, attempt, delays, outcome
    \* ---- AtlassianApiClient.getOrganizationUsers
    pg,               \* one listing: position, cursor, pages, users, requests
    \* ---- getMostRecentActivity
    act,              \* one application: the input and what it produced
    \* ---- the process: cron jobs and commands on the one reconciler instance
    app               \* clock, cache slots, client, the tasks between their awaits

ghVars == <<removeStopList, directory, members, invites, syncResult>>
lcVars == <<lc, env, now, lcRun>>
rtVars == <<rt, pg>>
actVars == <<act, app>>
vars == <<removeStopList, directory, members, invites, syncResult,
          lc, env, now, lcRun, rt, pg, act, app>>

(***************************************************************************)
(* Strings.  A username or an email as it is written somewhere is a base   *)
(* name plus how it is written: with upper-case letters or not, with       *)
(* surrounding spaces or not.  toLowerCase and trim act on the writing.    *)
(***************************************************************************)
Str(b) == [base |-> b, up |-> FALSE, pad |-> FALSE]
Written(b, u, p) == [base |-> b, up |-> u, pad |-> p]

toLowerCase(s) == [s EXCEPT !.up = FALSE]
trim(s) == [s EXCEPT !.pad = FALSE]

normalizeGitHubUsername(username) == trim(toLowerCase(username))
normalizeEmail(email) == trim(toLowerCase(email))

\* null / undefined / '' of the source: a value that is falsy
Null == [base |-> "", up |-> FALSE, pad |-> FALSE]
Truthy(s) == s # Null

\* Elements of a sequence, and a sequence without its repeated elements
\* (insertion order, as a JavaScript Set keeps it).
Range(s) == {s[i] : i \in 1..Len(s)}
Count(x, q) == Cardinality({i \in 1..Len(q) : q[i] = x})

RECURSIVE Dedup(_)
Dedup(s) ==
    IF s = <<>> THEN <<>>
    ELSE LET r == Dedup(SubSeq(s, 1, Len(s) - 1))
             x == s[Len(s)]
         IN IF x \in Range(r) THEN r ELSE Append(r, x)

\* A fixed enumeration of a finite set (the order in which an API lists it).
RECURSIVE SetToSeq(_)
SetToSeq(S) ==
    IF S = {} THEN <<>>
    ELSE LET x == CHOOSE y \in S : TRUE
         IN <<x>> \o SetToSeq(S \ {x})


(***************************************************************************)
(* WorkspaceGitHubSync (services/github-sync.ts)                           *)
(***************************************************************************)
MaxDirUsers == 2

NoResult == [status |-> "none"]

\* Directory users the model draws snapshots from: a linked username written
\* in lower case; the same username written with capitals, on a user without
\* primary email; a user without linked username; a linked username written
\* with surrounding spaces.
GhDirUsers ==
    { [primaryEmail |-> Str("alice@x"), GitHub_Username |-> Str("alice")],
      [primaryEmail |-> Null, GitHub_Username |-> Written("alice", TRUE, FALSE)],
      [primaryEmail |-> Str("bob@x"), GitHub_Username |-> Null],
      [primaryEmail |-> Str("carol@x"), GitHub_Username |-> Written("carol", FALSE, TRUE)] }

\* Snapshots: sequences of distinct users, at most MaxDirUsers long.
RECURSIVE SeqsUpTo(_, _)
SeqsUpTo(S, n) ==
    IF n = 0 THEN {<<>>}
    ELSE LET shorter == SeqsUpTo(S, n - 1)
         IN shorter \cup {Append(q, x) : q \in shorter, x \in S}

Distinct(s) == \A i, j \in 1..Len(s) : i # j => s[i] # s[j]

GhSnapshots == {s \in SeqsUpTo(GhDirUsers, MaxDirUsers) : Distinct(s)}

\* Logins as GitHub reports them (never padded, possibly with capitals).
GhLogins == {Written("alice", TRUE, FALSE), Str("carol")}

\* REMOVE_STOP_LIST values: unset, or comma-separated entries as written.
Unset == [defined |-> FALSE, entries |-> <<>>]
EnvList(entries) == [defined |-> TRUE, entries |-> entries]
RemoveStopListEnv ==
    { Unset,
      EnvList(<<Str("erin"), Str("carol")>>),
      EnvList(<<Written("carol", TRUE, FALSE), Written("carol", FALSE, TRUE)>>) }

\* String.prototype.split(','): the entries between the commas, as written.
SplitComma(v) == [i \in 1..Len(v.entries) |-> v.entries[i]]

\* github-sync.ts:19  process.env.REMOVE_STOP_LIST?.split(',') || []
removeStopListOf(v) == IF ~v.defined THEN <<>> ELSE SplitComma(v)

\* github-sync.ts:103-115 and 117-131
getGithubMemberUsernamesAsListed(ms) == ms
getGithubMemberUsernames(ms) == {toLowerCase(m) : m \in ms}
getGithubInvitedUsers(is) == {toLowerCase(i) : i \in {j \in is : Truthy(j)}}

\* github-sync.ts:38-46
HasGitHubUsername(user) == Truthy(user.GitHub_Username)

RECURSIVE MapLinked(_)
MapLinked(users) ==
    IF users = <<>> THEN <<>>
    ELSE LET r == MapLinked(SubSeq(users, 1, Len(users) - 1))
             u == users[Len(users)]
         IN IF HasGitHubUsername(u) THEN Append(r, toLowerCase(u.GitHub_Username)) ELSE r

\* new Set(...): each username once, in the order of first appearance.
workspaceGitHubUsernamesAsArray(users) == MapLinked(users)
workspaceGitHubUsernames(users) == Dedup(MapLinked(users))

\* github-sync.ts:55-58  workspaceUsers.find(...)?.primaryEmail
RECURSIVE FindEmail(_, _)
FindEmail(users, username) ==
    IF users = <<>> THEN Null
    ELSE IF toLowerCase(users[1].GitHub_Username) = username /\ Truthy(users[1].GitHub_Username)
         THEN users[1].primaryEmail
         ELSE FindEmail(Tail(users), username)

\* github-sync.ts:50
NeedsInviteOffList(username, currentMembers, pendingInvites) ==
    /\ username \notin currentMembers /\ username \notin pendingInvites
    /\ username \notin Range(removeStopList)
NeedsInviteNotMember(username, currentMembers, pendingInvites) ==
    username \notin currentMembers
NeedsInvite(username, currentMembers, pendingInvites) ==
    username \notin currentMembers /\ username \notin pendingInvites

\* github-sync.ts:82
InStopList(stop, member) == member \in Range(stop)

NeedsRemove(member, wanted, stop) ==
    member \notin Range(wanted) /\ ~InStopList(stop, member)

\* github-sync.ts:60-65 (continue), 72-75 and 88-91 (catch inside the loop
\* body): after a failure the loop goes on with the entries that are left.
AfterFailureNone(rest) == <<>>
AfterFailure(rest) == rest

\* github-sync.ts:60: !user.data.id || !userEmail
NotFoundIdOnly(answer, userEmail) == answer = "lookupNoId"
NotFound(answer, userEmail) == answer = "lookupNoId" \/ ~Truthy(userEmail)

\* In the result of a run, resolved and threw keep what the calls did:
\* resolved, the usernames whose lookup answered with an id
\* (github-sync.ts:52-54); threw, the usernames whose createInvitation or
\* removeMember call threw (67-70, 84-87).
Resolved(resolved, username, answer) ==
    IF answer = "lookupNoId" THEN resolved ELSE resolved \cup {username}

\* github-sync.ts:49-78, one pass of the invitation loop.  api tells, per
\* username, what the GitHub calls answer.
RECURSIVE InviteLoop(_, _, _, _, _, _)
InviteLoop(wanted, users, currentMembers, pendingInvites, api, r) ==
    IF wanted = <<>> THEN r
    ELSE LET username == wanted[1]
             rest == Tail(wanted)
         IN IF ~NeedsInvite(username, currentMembers, pendingInvites)
            THEN InviteLoop(rest, users, currentMembers, pendingInvites, api, r)
            ELSE LET r1 == [r EXCEPT !.lookupCalls = Append(@, username)]
                     userEmail == FindEmail(users, username)
                 IN IF api.invite[username] = "lookupThrows"
                    THEN InviteLoop(AfterFailure(rest), users, currentMembers, pendingInvites, api,
                             [r1 EXCEPT !.errors = Append(@, [kind |-> "inviting", who |-> username])])
                    ELSE IF NotFound(api.invite[username], userEmail)
                    THEN InviteLoop(AfterFailure(rest), users, currentMembers, pendingInvites, api,
                             [r1 EXCEPT !.errors = Append(@, [kind |-> "notfound", who |-> username]),
                                        !.resolved = Resolved(@, username, api.invite[username])])
                    ELSE LET r2 == [r1 EXCEPT !.inviteCalls = Append(@, username),
                                              !.resolved = @ \cup {username}]
                         IN IF api.invite[username] = "inviteFails"
                            THEN InviteLoop(AfterFailure(rest), users, currentMembers, pendingInvites, api,
                                     [r2 EXCEPT !.errors = Append(@, [kind |-> "inviting", who |-> username]),
                                                !.threw = @ \cup {username}])
                            ELSE InviteLoop(rest, users, currentMembers, pendingInvites, api,
                                     [r2 EXCEPT !.invited = Append(@, [username |-> username, email |-> userEmail])])

\* github-sync.ts:80-94, the removal loop.
RECURSIVE RemoveLoop(_, _, _, _, _)
RemoveLoop(ms, wanted, stop, api, r) ==
    IF ms = <<>> THEN r
    ELSE LET member == ms[1]
             rest == Tail(ms)
         IN IF ~NeedsRemove(member, wanted, stop)
            THEN RemoveLoop(rest, wanted, stop, api, r)
            ELSE LET r1 == [r EXCEPT !.removeCalls = Append(@, member)]
                 IN IF api.remove[member] = "removeFails"
                    THEN RemoveLoop(AfterFailure(rest), wanted, stop, api,
                             [r1 EXCEPT !.errors = Append(@, [kind |-> "removing", who |-> member]),
                                        !.threw = @ \cup {member}])
                    ELSE RemoveLoop(rest, wanted, stop, api,
                             [r1 EXCEPT !.removed = Append(@, member)])

\* github-sync.ts:31-101, a run whose three fetches succeeded.
syncMembersRun(users, ms, is, stop, api) ==
    LET currentMembers == getGithubMemberUsernames(ms)
        pendingInvites == getGithubInvitedUsers(is)
        wanted == workspaceGitHubUsernames(users)
        r0 == [status |-> "returned",
               invited |-> <<>>, removed |-> <<>>, errors |-> <<>>,
               lookupCalls |-> <<>>, inviteCalls |-> <<>>, removeCalls |-> <<>>,
               resolved |-> {}, threw |-> {},
               currentMembers |-> currentMembers,
               pendingInvites |-> pendingInvites]
        r1 == InviteLoop(wanted, users, currentMembers, pendingInvites, api, r0)
    IN RemoveLoop(SetToSeq(currentMembers), wanted, stop, api, r1)

\* What the organization looks like after the calls of a run that succeeded.
InvitedLogins(r) == {Str(r.invited[i].username.base) : i \in 1..Len(r.invited)}
MembersAfter(ms, r) == {m \in ms : toLowerCase(m) \notin Range(r.removed)}

\* The usernames a run could try to invite or remove (what api ranges over).
InviteCandidates(users, ms, is) ==
    {u \in Range(workspaceGitHubUsernames(users)) :
        NeedsInvite(u, getGithubMemberUsernames(ms), getGithubInvitedUsers(is))}
RemoveCandidates(users, ms) ==
    getGithubMemberUsernames(ms) \ Range(workspaceGitHubUsernames(users))

\* What GitHub answers to the calls made for one username: the id lookup
\* throws (unknown user), answers without id, or answers and then the
\* invitation fails or succeeds; a removal fails or succeeds.
GhApis(users, ms, is) ==
    [invite : [InviteCandidates(users, ms, is) ->
                  {"ok", "lookupThrows", "lookupNoId", "inviteFails"}],
     remove : [RemoveCandidates(users, ms) -> {"ok", "removeFails"}]]

\* syncMembers(): the three fetches, then the two loops, and what the calls
\* that succeeded did to the organization.
\* google-workspace.ts:29-50: the users the directory lists at the time of
\* the call (response.data.users || []).
getWorkspaceUsersNone(listed) == <<>>
getWorkspaceUsers(listed) == listed

SyncMembers ==
    /\ \E api \in GhApis(directory, members, invites) :
         LET r == syncMembersRun(getWorkspaceUsers(directory), members, invites,
                                 removeStopList, api)
         IN /\ syncResult' = r
            /\ invites' = invites \cup InvitedLogins(r)
            /\ members' = MembersAfter(members, r)
    /\ UNCHANGED <<removeStopList, directory, lcVars, rtVars, actVars>>

\* syncMembers() when one of its fetches throws: the error is rethrown
\* (github-sync.ts:34-36, 95-98) and nothing was called.
SyncMembersFetchFails ==
    /\ \E what \in {"directory", "members", "invites"} :
         syncResult' = [status |-> "raised", failed |-> what]
    /\ UNCHANGED <<removeStopList, directory, members, invites, lcVars, rtVars, actVars>>

\* The parts of the state a specification does not use stay as constructed.
IdleGH ==
    /\ removeStopList = <<>>
    /\ directory = <<>>
    /\ members = {}
    /\ invites = {}
    /\ syncResult = NoResult
IdleLC == lc = "idle" /\ env = "idle" /\ now = 0 /\ lcRun = NoResult
IdleRetry == rt = [pc |-> "idle"] /\ pg = [pc |-> "idle"]
IdleAct == act = [pc |-> "idle"] /\ app = [pc |-> "idle"]

InitGH ==
    /\ \E v \in RemoveStopListEnv : removeStopList = removeStopListOf(v)
    /\ directory \in GhSnapshots
    /\ members \in SUBSET GhLogins
    /\ invites \in SUBSET (GhLogins \ members)
    /\ syncResult = NoResult
    /\ IdleLC /\ IdleRetry /\ IdleAct

NextGH == SyncMembers \/ SyncMembersFetchFails

SpecGH == InitGH /\ [][NextGH]_vars


(***************************************************************************)
(* AtlassianApiClient.withRetry and the calls it wraps                     *)
(* (unnamed/part_003:312-356, 519-609)                                     *)
(*                                                                         *)
(* A message is the sequence of its pieces: words, separators and, where   *)
(* the text is an identifier or a number, its characters.                  *)
(***************************************************************************)
MAX_RETRIES == 3
BASE_DELAY_MS == 1000

\* String.prototype.includes
Includes(msg, pat) ==
    \E i \in 1..(Len(msg) - Len(pat) + 1) : SubSeq(msg, i, i + Len(pat) - 1) = pat

RetryOps == {"getUserLastActive", "suspendUser", "deleteUser"}

\* Account ids are opaque strings of letters and digits.
AccountIds == { <<"a", "7">>, <<"c", "4", "2", "9">> }

\* What one attempt of the wrapped call meets: a response (ok, or a status
\* with a body) or a failure of the connection, with the message the
\* network layer gives it.
Digits(status) ==
    CASE status = 429 -> <<"4", "2", "9">>
      [] status = 404 -> <<"4", "0", "4">>
      [] status = 500 -> <<"5", "0", "0">>

HttpFailure(status) == [kind |-> "http", status |-> status, text |-> <<"error">>]
NetFailure(code) == [kind |-> "network", code |-> code]
Ok == [kind |-> "ok"]

Answers ==
    {Ok}
    \cup {HttpFailure(st) : st \in {429, 404, 500}}
    \cup {NetFailure(c) : c \in {"ECONNRESET", "ETIMEDOUT", "ENOTFOUND"}}

NetMessage(code) ==
    CASE code = "ECONNRESET" -> <<"read", " ", "ECONNRESET">>
      [] code = "ETIMEDOUT" -> <<"connect", " ", "ETIMEDOUT">>
      [] code = "ENOTFOUND" -> <<"getaddrinfo", " ", "ENOTFOUND">>

\* part_003:533-537, 570-573, 600-603: the Error thrown for a response
\* that is not ok.
FailedPrefix(op) ==
    CASE op = "getUserLastActive" -> <<"Failed to fetch last active data for ">>
      [] op = "suspendUser" -> <<"Failed to suspend user ">>
      [] op = "deleteUser" -> <<"Failed to delete user ">>

ErrorMessage(op, accountId, answer) ==
    IF answer.kind = "http"
    THEN FailedPrefix(op) \o accountId \o <<": ">> \o Digits(answer.status)
             \o <<" ">> \o answer.text
    ELSE NetMessage(answer.code)

\* part_003:333-339
isRetryable(errorMsg) ==
    \/ Includes(errorMsg, <<"4", "2", "9">>)
    \/ Includes(errorMsg, <<"rate", " ", "limit">>)
    \/ Includes(errorMsg, <<"timeout">>)
    \/ Includes(errorMsg, <<"ECONNRESET">>)
    \/ Includes(errorMsg, <<"ETIMEDOUT">>)

\* part_003:327
IsLastAttemptLate(attempt) == attempt = MAX_RETRIES + 1
IsLastAttempt(attempt) == attempt = MAX_RETRIES

\* part_003:347
RECURSIVE Pow2(_)
Pow2(n) == IF n = 0 THEN 1 ELSE 2 * Pow2(n - 1)

delayMsLinear(attempt) == BASE_DELAY_MS * (attempt + 1)
delayMs(attempt) == BASE_DELAY_MS * Pow2(attempt)

RetryIdle == [pc |-> "idle"]

\* getUserLastActive / suspendUser / deleteUser is called: withRetry starts
\* its loop (part_003:320).
RetryCall ==
    /\ rt.pc = "idle"
    /\ \E op \in RetryOps, accountId \in AccountIds :
         rt' = [pc |-> "attempt", op |-> op, accountId |-> accountId, attempt |-> 0,
                answers |-> <<>>, delays |-> <<>>, lastError |-> <<>>,
                result |-> [kind |-> "none"]]
    /\ UNCHANGED <<pg, ghVars, lcVars, actVars>>

\* One pass of the loop body up to its await of the delay (part_003:321-350).
RetryAttempt ==
    /\ rt.pc = "attempt"
    /\ \E answer \in Answers :
         LET seen == [rt EXCEPT !.answers = Append(@, answer)]
             msg == ErrorMessage(rt.op, rt.accountId, answer)
             failed == [seen EXCEPT !.lastError = msg]
         IN IF answer.kind = "ok"
            THEN rt' = [seen EXCEPT !.pc = "returned", !.result = answer]
            ELSE IF IsLastAttempt(rt.attempt) \/ ~isRetryable(msg)
            THEN rt' = [failed EXCEPT !.pc = "thrown"]
            ELSE rt' = [failed EXCEPT !.pc = "delay",
                                      !.delays = Append(@, delayMs(rt.attempt))]
    /\ UNCHANGED <<pg, ghVars, lcVars, actVars>>

\* The delay elapses: attempt++ and the loop condition (part_003:320); past
\* the loop the last error is thrown (part_003:355).
RetryDelayElapsed ==
    /\ rt.pc = "delay"
    /\ rt' = IF rt.attempt + 1 <= MAX_RETRIES
             THEN [rt EXCEPT !.pc = "attempt", !.attempt = @ + 1]
             ELSE [rt EXCEPT !.pc = "thrown", !.attempt = @ + 1]
    /\ UNCHANGED <<pg, ghVars, lcVars, actVars>>

InitRetry == rt = RetryIdle /\ pg = [pc |-> "idle"] /\ IdleGH /\ IdleLC /\ IdleAct

NextRetry == RetryCall \/ RetryAttempt \/ RetryDelayElapsed

SpecRetry == InitRetry /\ [][NextRetry]_vars

(***************************************************************************)
(* AtlassianApiClient.getOrganizationUsers (part_003:406-513)              *)
(*                                                                         *)
(* A cursor is a positive number; 0 stands for no cursor (null, or the     *)
(* empty string, which is falsy as well).  The URL of a page is the base   *)
(* URL, or the base URL with ?cursor=<the cursor, URI-encoded>: different  *)
(* cursors give different URLs, so a URL is named by its cursor, the base  *)
(* URL by 0.                                                               *)
(***************************************************************************)
MAX_PAGES == 100

PagesIdle == [pc |-> "idle"]

\* What the caller gets: the users, or nothing when the listing throws.
NoListing == [returned |-> FALSE, users |-> <<>>]
Listing(users) == [returned |-> TRUE, users |-> users]
Returns(p, stop) == [p EXCEPT !.pc = "returned", !.stop = stop, !.result = Listing(p.users)]
Throws(p) == [p EXCEPT !.pc = "raised", !.stop = "error"]

\* part_003:427-429
UrlOf(nextCursor) == nextCursor

\* part_003:420
AtPageLimitNever(pageCount) == FALSE
AtPageLimit(pageCount) == pageCount >= MAX_PAGES

\* part_003:433
SeenUrl(seenUrls, url) == url \in seenUrls

\* part_003:451
IsRateLimitNever(status) == FALSE
IsRateLimit(status) == status = 429

\* data.links?.next of a page: absent, a cursor token, a full URL with or
\* without a cursor parameter, or text that starts like a URL and is none.
NoLink == [kind |-> "none", cursor |-> 0]
TokenLink(c) == [kind |-> "token", cursor |-> c]
UrlLink(c) == [kind |-> "url", cursor |-> c]
BadUrlLink == [kind |-> "badurl", cursor |-> 0]

\* part_003:489-504
NextCursorOf(nextLink) ==
    CASE nextLink.kind = "none" -> 0
      [] nextLink.kind = "url" -> nextLink.cursor
      [] nextLink.kind = "badurl" -> 0
      [] nextLink.kind = "token" -> nextLink.cursor

\* The cursors a server may put in a link: the first one it gave, the one
\* just used, one never given before.
SetMaxNat(S) == CHOOSE x \in S : \A y \in S : y <= x
FreshCursor(seenUrls, nextCursor) == SetMaxNat(seenUrls \cup {nextCursor}) + 1
ServerCursors(seenUrls, nextCursor) ==
    ({1, nextCursor} \ {0}) \cup {FreshCursor(seenUrls, nextCursor)}

\* What the server answers to a page request.
PageAnswers(seenUrls, nextCursor) ==
    {[kind |-> "ok", status |-> 200, next |-> l] :
        l \in {NoLink, BadUrlLink, UrlLink(0)}
              \cup {TokenLink(c) : c \in ServerCursors(seenUrls, nextCursor)}
              \cup {UrlLink(c) : c \in ServerCursors(seenUrls, nextCursor)}}
    \cup {[kind |-> "http", status |-> st, next |-> NoLink] : st \in {429, 500}}
    \cup {[kind |-> "network", status |-> 0, next |-> NoLink]}

\* getOrganizationUsers is called: the directory id is resolved
\* (part_003:362-396, 408), or that throws and so does the listing.
ListCall ==
    /\ pg.pc = "idle"
    /\ \E resolved \in BOOLEAN :
          pg' = [pc |-> IF resolved THEN "loop" ELSE "raised",
                 stop |-> IF resolved THEN "none" ELSE "directoryId",
                 nextCursor |-> 0, pageCount |-> 0, seenUrls |-> {},
                 users |-> <<>>, requests |-> <<>>, answers |-> <<>>,
                 result |-> NoListing]
    /\ UNCHANGED <<rt, ghVars, lcVars, actVars>>

\* part_003:420-425: the page ceiling is reached, the loop is left.
PageLimitReached ==
    /\ pg.pc = "loop"
    /\ AtPageLimit(pg.pageCount)
    /\ pg' = Returns(pg, "limit")
    /\ UNCHANGED <<rt, ghVars, lcVars, actVars>>

\* part_003:433-436: the URL was fetched before, the loop is left.
CycleDetected ==
    /\ pg.pc = "loop"
    /\ ~AtPageLimit(pg.pageCount)
    /\ SeenUrl(pg.seenUrls, UrlOf(pg.nextCursor))
    /\ pg' = Returns(pg, "cycle")
    /\ UNCHANGED <<rt, ghVars, lcVars, actVars>>

\* part_003:437-505: one page is requested and the answer handled.  The
\* page that is the n-th to arrive carries one user, n.
FetchPage ==
    /\ pg.pc = "loop"
    /\ ~AtPageLimit(pg.pageCount)
    /\ ~SeenUrl(pg.seenUrls, UrlOf(pg.nextCursor))
    /\ pg.pageCount <= MAX_PAGES
    /\ \E answer \in PageAnswers(pg.seenUrls, pg.nextCursor) :
          LET asked == [pg EXCEPT !.seenUrls = @ \cup {UrlOf(pg.nextCursor)},
                                  !.requests = Append(@, UrlOf(pg.nextCursor)),
                                  !.answers = Append(@, answer.status)]
          IN IF answer.kind = "network"
             THEN pg' = Throws(asked)
             ELSE IF answer.kind = "http"
             THEN IF IsRateLimit(answer.status)
                  THEN pg' = Returns(asked, "rateLimit")
                  ELSE pg' = Throws(asked)
             ELSE LET got == [asked EXCEPT !.users = Append(@, pg.pageCount + 1),
                                           !.pageCount = @ + 1,
                                           !.nextCursor = NextCursorOf(answer.next)]
                  IN IF got.nextCursor # 0
                     THEN pg' = got
                     ELSE pg' = Returns(got, "end")
    /\ UNCHANGED <<rt, ghVars, lcVars, actVars>>

InitPages == pg = PagesIdle /\ rt = RetryIdle /\ IdleGH /\ IdleLC /\ IdleAct

NextPages == ListCall \/ PageLimitReached \/ CycleDetected \/ FetchPage

SpecPages == InitPages /\ [][NextPages]_vars

\* The listing is not left half-way: a step that can be taken is taken.
SpecPagesFair == SpecPages /\ WF_vars(NextPages)

(***************************************************************************)
(* WorkspaceAtlassianSync.getMostRecentActivity                            *)
(* (services/atlassian-sync.ts:428-446)                                    *)
(*                                                                         *)
(* A last_active_timestamp is empty, an ISO timestamp (an instant, written *)
(* in UTC or with an offset), or text that is no timestamp.  Instants are  *)
(* counted in seconds.                                                     *)
(***************************************************************************)
MaxProducts == 3
MaxInstant == 2

NaN == -1

EmptyStamp == [kind |-> "empty", t |-> 0, utc |-> TRUE]
JunkStamp == [kind |-> "junk", t |-> 0, utc |-> TRUE]
IsoStamp(t, utc) == [kind |-> "iso", t |-> t, utc |-> utc]

Stamps ==
    {EmptyStamp, JunkStamp} \cup {IsoStamp(t, utc) : t \in 1..MaxInstant, utc \in BOOLEAN}

\* new Date(timestamp).getTime()
DateGetTime(stamp) == IF stamp.kind = "iso" THEN stamp.t ELSE NaN

\* Math.max(...values): NaN as soon as one value is NaN
RECURSIVE MathMax(_)
MathMax(values) ==
    IF Len(values) = 1 THEN values[1]
    ELSE LET rest == MathMax(Tail(values))
         IN IF values[1] = NaN \/ rest = NaN THEN NaN
            ELSE IF values[1] >= rest THEN values[1] ELSE rest

\* atlassian-sync.ts:436  .filter((timestamp) => timestamp && timestamp !== '')
RECURSIVE NonEmptyStamps(_)
NonEmptyStamps(stamps) ==
    IF stamps = <<>> THEN <<>>
    ELSE IF stamps[1].kind = "empty" THEN NonEmptyStamps(Tail(stamps))
         ELSE <<stamps[1]>> \o NonEmptyStamps(Tail(stamps))

\* new Date(ms).toISOString(): the instant written in UTC; a RangeError for
\* an invalid date.
NullActivity == [kind |-> "null", t |-> 0, utc |-> TRUE]
RangeError == [kind |-> "throws", t |-> 0, utc |-> TRUE]
toISOString(ms) == IF ms = NaN THEN RangeError ELSE IsoStamp(ms, TRUE)

\* atlassian-sync.ts:428-446.  productAccess: the last_active_timestamp of
\* each product, in the order of the response.
getMostRecentActivity(productAccess) ==
    IF productAccess = <<>> THEN NullActivity
    ELSE LET dates == NonEmptyStamps(productAccess)
         IN IF Len(dates) = 0 THEN NullActivity
            ELSE toISOString(MathMax([i \in 1..Len(dates) |-> DateGetTime(dates[i])]))

ActIdle == [pc |-> "idle"]

\* One application, to any product list of at most MaxProducts entries.
ApplyGetMostRecentActivity ==
    /\ act.pc = "idle"
    /\ \E productAccess \in SeqsUpTo(Stamps, MaxProducts) :
         act' = [pc |-> "done", productAccess |-> productAccess,
                 result |-> getMostRecentActivity(productAccess)]
    /\ UNCHANGED <<app, ghVars, lcVars, rtVars>>

InitAct == act = ActIdle /\ app = [pc |-> "idle"] /\ IdleGH /\ IdleLC /\ IdleRetry

NextAct == ApplyGetMostRecentActivity

SpecAct == InitAct /\ [][NextAct]_vars

(***************************************************************************)
(* WorkspaceAtlassianSync (services/atlassian-sync.ts)                     *)
(*                                                                         *)
(* Time is counted in seconds.                                             *)
(***************************************************************************)
DAY == 86400
CACHE_TTL == 600
INACTIVITY_SUSPENSION_DAYS == 90
INACTIVITY_DELETION_DAYS == 180
RATE_LIMIT_DELAY == 2

\* Date.now() when the process starts.
Now0 == 400 * DAY
DaysAgo(d) == IsoStamp(Now0 - d * DAY, TRUE)

\* Nullable fields: a snapshot, a cache timestamp, added_to_org, product_access.
NoUsers == [isNull |-> TRUE, value |-> <<>>]
NoTimestamp == [isNull |-> TRUE, value |-> 0]
NoDate == [isNull |-> TRUE, value |-> EmptyStamp]
NoProductAccess == [isNull |-> TRUE, value |-> <<>>]
Some(v) == [isNull |-> FALSE, value |-> v]

\* atlassian-sync.ts:451-456
calculateDaysSince(isoDate, t) ==
    IF DateGetTime(isoDate) = NaN THEN NaN ELSE (t - DateGetTime(isoDate)) \div DAY

\* atlassian-sync.ts:89-97
isWithinGracePeriodStrict(addedToOrg, gracePeriodDays, t) ==
    IF addedToOrg.isNull THEN FALSE
    ELSE /\ calculateDaysSince(addedToOrg.value, t) # NaN
         /\ calculateDaysSince(addedToOrg.value, t) < gracePeriodDays
isWithinGracePeriod(addedToOrg, gracePeriodDays, t) ==
    IF addedToOrg.isNull THEN FALSE
    ELSE /\ calculateDaysSince(addedToOrg.value, t) # NaN
         /\ calculateDaysSince(addedToOrg.value, t) <= gracePeriodDays

\* atlassian-sync.ts:116-120
isCacheValidInclusive(timestamp, t) ==
    IF timestamp.isNull THEN FALSE ELSE t - timestamp.value <= CACHE_TTL
isCacheValid(timestamp, t) ==
    IF timestamp.isNull THEN FALSE ELSE t - timestamp.value < CACHE_TTL

\* config.ts:53-56 and atlassian-sync.ts:78-80: ATLASSIAN_SUSPEND_STOP_LIST is
\* split at the commas, each entry trimmed, then normalized.
suspendStopListOf(v) ==
    IF ~v.defined THEN <<>>
    ELSE [i \in 1..Len(v.entries) |-> normalizeEmail(trim(SplitComma(v)[i]))]

\* atlassian-sync.ts:180-182
workspaceEmailsOfAsWritten(workspaceUsers) ==
    {workspaceUsers[i].primaryEmail : i \in 1..Len(workspaceUsers)}
workspaceEmailsOf(workspaceUsers) ==
    {normalizeEmail(workspaceUsers[i].primaryEmail) : i \in 1..Len(workspaceUsers)}

\* atlassian-sync.ts:197, 265, 356
InSuspendStopList(self, normalizedEmail) == normalizedEmail \in Range(self.suspendStopList)

\* atlassian-sync.ts:127-144 and 151-168: a read through one cache slot.
\* live is what the API would answer, fails whether the live fetch throws.
\* Gives what the read returns and the slot after it.
CacheReadDropsOnFailure(payload, timestamp, t, live, fails) ==
    IF ~payload.isNull /\ isCacheValid(timestamp, t)
    THEN [ok |-> TRUE, fetched |-> FALSE, users |-> payload.value,
          payload |-> payload, timestamp |-> timestamp]
    ELSE IF fails
    THEN [ok |-> FALSE, fetched |-> TRUE, users |-> <<>>,
          payload |-> NoUsers, timestamp |-> NoTimestamp]
    ELSE [ok |-> TRUE, fetched |-> TRUE, users |-> live,
          payload |-> Some(live), timestamp |-> Some(t)]
CacheRead(payload, timestamp, t, live, fails) ==
    IF ~payload.isNull /\ isCacheValid(timestamp, t)
    THEN [ok |-> TRUE, fetched |-> FALSE, users |-> payload.value,
          payload |-> payload, timestamp |-> timestamp]
    ELSE IF fails
    THEN [ok |-> FALSE, fetched |-> TRUE, users |-> <<>>,
          payload |-> payload, timestamp |-> timestamp]
    ELSE [ok |-> TRUE, fetched |-> TRUE, users |-> live,
          payload |-> Some(live), timestamp |-> Some(t)]

\* The start of every check (atlassian-sync.ts:177-185, 249-257, 340-348):
\* the directory through its slot, then the tenant through its slot.
ReadSnapshots(self, world, t, api) ==
    LET ws == CacheRead(self.cachedWorkspaceUsers, self.cachedWorkspaceUsersTimestamp,
                        t, world.workspace, api.fetchFails = "workspace")
        at == CacheRead(self.cachedAtlassianUsers, self.cachedAtlassianUsersTimestamp,
                        t, world.tenant, api.fetchFails = "tenant")
        self1 == [self EXCEPT !.cachedWorkspaceUsers = ws.payload,
                              !.cachedWorkspaceUsersTimestamp = ws.timestamp]
        self2 == [self1 EXCEPT !.cachedAtlassianUsers = at.payload,
                               !.cachedAtlassianUsersTimestamp = at.timestamp]
    IN IF ~ws.ok
       THEN [ok |-> FALSE, failed |-> "workspace", self |-> self1,
             fetches |-> <<"workspace">>, workspaceUsers |-> <<>>, atlassianUsers |-> <<>>]
       ELSE LET f1 == IF ws.fetched THEN <<"workspace">> ELSE <<>>
            IN IF ~at.ok
               THEN [ok |-> FALSE, failed |-> "tenant", self |-> self2,
                     fetches |-> Append(f1, "tenant"),
                     workspaceUsers |-> ws.users, atlassianUsers |-> <<>>]
               ELSE [ok |-> TRUE, failed |-> "none",
                     self |-> self2,
                     fetches |-> IF at.fetched THEN Append(f1, "tenant") ELSE f1,
                     workspaceUsers |-> ws.users, atlassianUsers |-> at.users]

\* The result of a check, with the calls and lookups it made.
\* atlassian-sync.ts:175, 247, 338: the result a run starts from.
EmptyRunMerged(check, dryRun) ==
    [status |-> "returned", failed |-> "none", check |-> check, dryRun |-> dryRun,
     suspended |-> IF lcRun.status = "returned" THEN lcRun.run.suspended ELSE <<>>,
     deleted |-> <<>>, errors |-> <<>>,
     suspendCalls |-> <<>>, deleteCalls |-> <<>>, lookups |-> <<>>, events |-> <<>>]
EmptyRun(check, dryRun) ==
    [status |-> "returned", failed |-> "none", check |-> check, dryRun |-> dryRun,
     suspended |-> <<>>, deleted |-> <<>>, errors |-> <<>>,
     suspendCalls |-> <<>>, deleteCalls |-> <<>>, lookups |-> <<>>, events |-> <<>>]

\* atlassian-sync.ts:188-211
ToSuspend(self, user, workspaceEmails, t) ==
    /\ ~(user.account_status # "active" \/ normalizeEmail(user.email) \in workspaceEmails)
    /\ ~InSuspendStopList(self, normalizeEmail(user.email))
    /\ ~isWithinGracePeriod(user.added_to_org, self.gracePeriodDays, t)

\* atlassian-sync.ts:216
SkipsSuspendNever(self) == FALSE
SkipsSuspend(self) == self.dryRun

\* atlassian-sync.ts:302 and 393
SkipsMutationNever(self) == FALSE
SkipsMutation(self) == self.dryRun

\* atlassian-sync.ts:225-232, 316-323 and 407-414: the catch inside the loop
\* body pushes one entry with the email and the id of the account.
FailedUnrecorded(r, user, cause) == r
FailedAndReported(r, user, cause) ==
    [r EXCEPT !.errors = Append(@, [email |-> user.email, accountId |-> user.account_id,
                                    cause |-> cause]),
              !.suspended = IF cause = "suspendUser"
                            THEN Append(@, [email |-> user.email, accountId |-> user.account_id,
                                            lastActiveDate |-> NullActivity, inactiveDays |-> 0])
                            ELSE @]
Failed(r, user, cause) ==
    [r EXCEPT !.errors = Append(@, [email |-> user.email, accountId |-> user.account_id,
                                    cause |-> cause])]

\* atlassian-sync.ts:214-233
RECURSIVE SuspendLoop(_, _, _, _, _, _)
SuspendLoop(self, users, workspaceEmails, t, api, r) ==
    IF users = <<>> THEN r
    ELSE LET user == users[1]
             rest == Tail(users)
         IN IF ~ToSuspend(self, user, workspaceEmails, t)
            THEN SuspendLoop(self, rest, workspaceEmails, t, api, r)
            ELSE LET entry == [email |-> user.email, accountId |-> user.account_id,
                               lastActiveDate |-> NullActivity, inactiveDays |-> 0]
                     called == [r EXCEPT !.suspendCalls = Append(@, user.account_id)]
                 IN IF SkipsSuspend(self)
                    THEN SuspendLoop(self, rest, workspaceEmails, t, api,
                             [r EXCEPT !.suspended = Append(@, entry)])
                    ELSE IF user.account_id \in api.mutateFails
                    THEN SuspendLoop(self, rest, workspaceEmails, t, api,
                             Failed(called, user, "suspendUser"))
                    ELSE SuspendLoop(self, rest, workspaceEmails, t, api,
                             [called EXCEPT !.suspended = Append(@, entry)])

\* atlassian-sync.ts:174-240, once both snapshots are read.
syncSuspensionsRun(self, workspaceUsers, atlassianUsers, t, api) ==
    SuspendLoop(self, atlassianUsers, workspaceEmailsOf(workspaceUsers), t, api,
                EmptyRun("syncSuspensions", self.dryRun))

\* atlassian-sync.ts:261-324 and 352-415: the loop of an inactivity check.
\* check3MonthInactivity walks the active accounts, suspends past 90 days;
\* check6MonthInactivity walks the inactive ones, deletes past 180 days.
StatusOfActive(check) == "active"
StatusOf(check) == IF check = "check3MonthInactivity" THEN "active" ELSE "inactive"
ThresholdOf(check) ==
    IF check = "check3MonthInactivity" THEN INACTIVITY_SUSPENSION_DAYS
    ELSE INACTIVITY_DELETION_DAYS
MutationOf(check) == IF check = "check3MonthInactivity" THEN "suspendUser" ELSE "deleteUser"

Called(check, r, accountId) ==
    IF check = "check3MonthInactivity"
    THEN [r EXCEPT !.suspendCalls = Append(@, accountId)]
    ELSE [r EXCEPT !.deleteCalls = Append(@, accountId)]
Reported(check, r, entry) ==
    IF check = "check3MonthInactivity"
    THEN [r EXCEPT !.suspended = Append(@, entry)]
    ELSE [r EXCEPT !.deleted = Append(@, entry)]

\* atlassian-sync.ts:264-273 and 355-364
SkippedNoStopList(self, user, workspaceEmails) ==
    normalizeEmail(user.email) \in workspaceEmails
Skipped(self, user, workspaceEmails) ==
    \/ InSuspendStopList(self, normalizeEmail(user.email))
    \/ normalizeEmail(user.email) \in workspaceEmails

\* atlassian-sync.ts:282-285 and 373-376
NoActivityData(product_access) ==
    product_access.isNull \/ Len(product_access.value) = 0

\* atlassian-sync.ts:276 and 367: lastActiveData.data.product_access of an
\* answered lookup.
LastActiveDataOrEpoch(activity, id) ==
    IF NoActivityData(activity[id]) THEN Some(<<IsoStamp(0, TRUE)>>) ELSE activity[id]
LastActiveData(activity, id) == activity[id]

RECURSIVE InactivityLoop(_, _, _, _, _, _, _, _)
InactivityLoop(check, self, users, workspaceEmails, activity, t, api, r) ==
    IF users = <<>> THEN r
    ELSE LET user == users[1]
             rest == Tail(users)
             id == user.account_id
         IN IF user.account_status # StatusOf(check) \/ Skipped(self, user, workspaceEmails)
            THEN InactivityLoop(check, self, rest, workspaceEmails, activity, t, api, r)
            ELSE LET r1 == [r EXCEPT !.lookups = Append(@, id),
                                     !.events = Append(@, <<"lookup", id>>)]
                 IN IF id \in api.lookupFails
                    THEN InactivityLoop(check, self, rest, workspaceEmails, activity, t, api,
                             Failed(r1, user, "getUserLastActive"))
                    ELSE LET r2 == [r1 EXCEPT !.events = Append(@, <<"delay", RATE_LIMIT_DELAY>>)]
                             product_access == LastActiveData(activity, id)
                         IN IF NoActivityData(product_access)
                            THEN InactivityLoop(check, self, rest, workspaceEmails, activity, t, api, r2)
                            ELSE LET mostRecentActivity == getMostRecentActivity(product_access.value)
                                 IN IF mostRecentActivity = RangeError
                                    THEN InactivityLoop(check, self, rest, workspaceEmails, activity, t, api,
                                             Failed(r2, user, "RangeError"))
                                    ELSE IF mostRecentActivity = NullActivity
                                    THEN InactivityLoop(check, self, rest, workspaceEmails, activity, t, api, r2)
                                    ELSE LET daysSinceLastActive == calculateDaysSince(mostRecentActivity, t)
                                             entry == [email |-> user.email, accountId |-> id,
                                                       lastActiveDate |-> mostRecentActivity,
                                                       inactiveDays |-> daysSinceLastActive]
                                         IN IF ~(daysSinceLastActive > ThresholdOf(check))
                                            THEN InactivityLoop(check, self, rest, workspaceEmails, activity, t, api, r2)
                                            ELSE IF SkipsMutation(self)
                                            THEN InactivityLoop(check, self, rest, workspaceEmails, activity, t, api,
                                                     Reported(check, r2, entry))
                                            ELSE IF id \in api.mutateFails
                                            THEN InactivityLoop(check, self, rest, workspaceEmails, activity, t, api,
                                                     Failed(Called(check, r2, id), user, MutationOf(check)))
                                            ELSE InactivityLoop(check, self, rest, workspaceEmails, activity, t, api,
                                                     Reported(check, Called(check, r2, id), entry))

\* atlassian-sync.ts:246-331
check3MonthInactivityRun(self, workspaceUsers, atlassianUsers, activity, t, api) ==
    InactivityLoop("check3MonthInactivity", self, atlassianUsers,
                   workspaceEmailsOf(workspaceUsers), activity, t, api,
                   EmptyRun("check3MonthInactivity", self.dryRun))

\* atlassian-sync.ts:337-422
check6MonthInactivityRun(self, workspaceUsers, atlassianUsers, activity, t, api) ==
    InactivityLoop("check6MonthInactivity", self, atlassianUsers,
                   workspaceEmailsOf(workspaceUsers), activity, t, api,
                   EmptyRun("check6MonthInactivity", self.dryRun))

CheckRun(check, self, workspaceUsers, atlassianUsers, activity, t, api) ==
    CASE check = "syncSuspensions" ->
             syncSuspensionsRun(self, workspaceUsers, atlassianUsers, t, api)
      [] check = "check3MonthInactivity" ->
             check3MonthInactivityRun(self, workspaceUsers, atlassianUsers, activity, t, api)
      [] check = "check6MonthInactivity" ->
             check6MonthInactivityRun(self, workspaceUsers, atlassianUsers, activity, t, api)

\* The tenant and the directory the checks run against.
GRACE_PERIOD_DAYS_DEFAULT == 7
MaxTicks == 2

AccountIds2 == {"a1", "a2"}
Account(id, email, status, addedToOrg) ==
    [account_id |-> id, email |-> email, account_status |-> status,
     added_to_org |-> addedToOrg]

Ann == Written("ann@x", TRUE, FALSE)
Bob == Str("bob@x")

\* product_access answers of getUserLastActive
ProductAccessAnswers ==
    { NoProductAccess, Some(<<>>), Some(<<EmptyStamp>>),
      Some(<<DaysAgo(INACTIVITY_SUSPENSION_DAYS)>>),
      Some(<<DaysAgo(200), DaysAgo(INACTIVITY_SUSPENSION_DAYS + 1)>>),
      Some(<<DaysAgo(INACTIVITY_DELETION_DAYS)>>),
      Some(<<DaysAgo(INACTIVITY_DELETION_DAYS + 1), EmptyStamp>>),
      Some(<<JunkStamp, DaysAgo(INACTIVITY_DELETION_DAYS + 1)>>) }

JoinDates ==
    { NoDate, Some(DaysAgo(3)), Some(DaysAgo(GRACE_PERIOD_DAYS_DEFAULT)),
      Some(DaysAgo(GRACE_PERIOD_DAYS_DEFAULT + 1)) }

\* The second account, when the tenant has one: long in the organisation,
\* not in the directory.
SecondAccounts ==
    { [user |-> Account("a2", Bob, "active", NoDate),
       product_access |-> Some(<<DaysAgo(INACTIVITY_SUSPENSION_DAYS + 1)>>)],
      [user |-> Account("a2", Bob, "inactive", NoDate),
       product_access |-> Some(<<DaysAgo(INACTIVITY_DELETION_DAYS + 1)>>)] }

SuspendStopListEnv == {Unset, EnvList(<<Written("ann@x", TRUE, TRUE)>>)}

Directories == {<<>>, <<[primaryEmail |-> Written("ann@x", FALSE, TRUE)]>>}

\* The first account: a recent or an old member; an old member has any
\* status and any activity.
FirstAccounts ==
    {[user |-> Account("a1", Ann, "active", j), product_access |-> pa] :
        j \in JoinDates,
        pa \in {NoProductAccess, Some(<<DaysAgo(200), DaysAgo(INACTIVITY_SUSPENSION_DAYS + 1)>>)}}
    \cup
    {[user |-> Account("a1", Ann, st, NoDate), product_access |-> pa] :
        st \in {"active", "inactive"}, pa \in ProductAccessAnswers}

\* The first account of a tenant of two: an old member whose activity is
\* at or past a threshold.
FirstOfTwo ==
    {[user |-> Account("a1", Ann, st, NoDate), product_access |-> pa] :
        st \in {"active", "inactive"},
        pa \in {Some(<<DaysAgo(200), DaysAgo(INACTIVITY_SUSPENSION_DAYS + 1)>>),
                Some(<<DaysAgo(INACTIVITY_DELETION_DAYS)>>),
                Some(<<DaysAgo(INACTIVITY_DELETION_DAYS + 1), EmptyStamp>>),
                Some(<<JunkStamp, DaysAgo(INACTIVITY_DELETION_DAYS + 1)>>)}}

Worlds ==
    {[workspace |-> d,
      tenant |-> <<first.user>>,
      activity |-> [id \in AccountIds2 |->
                       IF id = "a1" THEN first.product_access ELSE NoProductAccess]] :
        d \in Directories, first \in FirstAccounts}
    \cup
    {[workspace |-> d,
      tenant |-> <<first.user, second.user>>,
      activity |-> [id \in AccountIds2 |->
                       IF id = "a1" THEN first.product_access ELSE second.product_access]] :
        d \in Directories, first \in FirstOfTwo, second \in SecondAccounts}

\* atlassian-sync.ts:68-83: the instance after construction.
NewSync(stopListEnv, dryRun, gracePeriodDays) ==
    [suspendStopList |-> suspendStopListOf(stopListEnv),
     dryRun |-> dryRun,
     gracePeriodDays |-> gracePeriodDays,
     cachedWorkspaceUsers |-> NoUsers,
     cachedWorkspaceUsersTimestamp |-> NoTimestamp,
     cachedAtlassianUsers |-> NoUsers,
     cachedAtlassianUsersTimestamp |-> NoTimestamp]

\* What the API does in one run: which snapshot fetch throws, which
\* getUserLastActive calls and which suspendUser / deleteUser calls end in
\* an error.
NoFailure == [fetchFails |-> "none", lookupFails |-> {}, mutateFails |-> {}]
FetchFailures ==
    {[fetchFails |-> f, lookupFails |-> {}, mutateFails |-> {}] :
        f \in {"workspace", "tenant"}}
CallFailures(users) ==
    {[fetchFails |-> "none", lookupFails |-> l, mutateFails |-> m] :
        l \in SUBSET {users[i].account_id : i \in 1..Len(users)},
        m \in SUBSET {users[i].account_id : i \in 1..Len(users)}}

\* The tenant after the calls of a run that went through: a suspended
\* account is inactive, a deleted account is gone.
RECURSIVE TenantAfter(_, _, _)
TenantAfter(tenant, suspendedIds, deletedIds) ==
    IF tenant = <<>> THEN <<>>
    ELSE LET user == tenant[1]
             rest == TenantAfter(Tail(tenant), suspendedIds, deletedIds)
         IN IF user.account_id \in deletedIds THEN rest
            ELSE IF user.account_id \in suspendedIds
            THEN <<[user EXCEPT !.account_status = "inactive"]>> \o rest
            ELSE <<user>> \o rest

WorldAfter(world, r, api) ==
    [world EXCEPT !.tenant =
        TenantAfter(@, Range(r.suspendCalls) \ api.mutateFails,
                       Range(r.deleteCalls) \ api.mutateFails)]

\* The last call on the instance was clearCache(); filled tells whether
\* both slots held a payload when it was called.
Cleared(self) ==
    [status |-> "cleared",
     filled |-> ~self.cachedWorkspaceUsers.isNull /\ ~self.cachedAtlassianUsers.isNull]

\* A run with the snapshots it read and what the API did; afterClear tells
\* whether the call before it was clearCache(), and on which slots.
Recorded(r, snap, api) ==
    [status |-> r.status, run |-> r, fetches |-> snap.fetches,
     workspaceUsers |-> snap.workspaceUsers, atlassianUsers |-> snap.atlassianUsers,
     api |-> api,
     afterClear |-> IF lcRun.status # "cleared" THEN "no"
                    ELSE IF lcRun.filled THEN "filled" ELSE "empty"]

\* atlassian-sync.ts:234-237, 325-328 and 416-419: the outer catch logs and
\* rethrows, the check has no result.
RaisedSwallowed(check, self, failed) == EmptyRun(check, self.dryRun)
Raised(check, self, failed) ==
    [EmptyRun(check, self.dryRun) EXCEPT !.status = "raised", !.failed = failed]

\* atlassian-sync.ts:217-224, 304-311, 395-402: suspendUser and deleteUser
\* are calls of the API client; the loops assign no field of the instance.
AfterCallsTenantDropped(self, r) ==
    IF r.suspendCalls = <<>> /\ r.deleteCalls = <<>> THEN self
    ELSE [self EXCEPT !.cachedAtlassianUsers = NoUsers,
                      !.cachedAtlassianUsersTimestamp = NoTimestamp]
AfterCalls(self, r) == self

\* One call of a check (atlassian-sync.ts:174-240, 246-331, 337-422): a
\* fetch throws and so does the check, or both snapshots are read and the
\* loop runs.
RunCheck(check) ==
    \/ \E api \in FetchFailures :
          LET snap == ReadSnapshots(lc, env, now, api)
          IN /\ ~snap.ok
             /\ lcRun' = Recorded(Raised(check, lc, snap.failed), snap, api)
             /\ lc' = snap.self
             /\ UNCHANGED <<env, now>>
    \/ LET snap == ReadSnapshots(lc, env, now, NoFailure)
       IN \E api \in CallFailures(snap.atlassianUsers) :
             LET r == CheckRun(check, lc, snap.workspaceUsers, snap.atlassianUsers,
                               env.activity, now, api)
             IN /\ api.lookupFails \subseteq Range(r.lookups)
                /\ api.mutateFails \subseteq Range(r.suspendCalls) \cup Range(r.deleteCalls)
                /\ lcRun' = Recorded(r, snap, api)
                /\ lc' = AfterCalls(snap.self, r)
                /\ env' = WorldAfter(env, r, api)
                /\ now' = now

SyncSuspensions ==
    /\ RunCheck("syncSuspensions")
    /\ UNCHANGED <<ghVars, rtVars, actVars>>

Check3MonthInactivity ==
    /\ RunCheck("check3MonthInactivity")
    /\ UNCHANGED <<ghVars, rtVars, actVars>>

Check6MonthInactivity ==
    /\ RunCheck("check6MonthInactivity")
    /\ UNCHANGED <<ghVars, rtVars, actVars>>

\* atlassian-sync.ts:103-109
clearCacheTenantOnly(self) ==
    [self EXCEPT !.cachedAtlassianUsers = NoUsers,
                 !.cachedAtlassianUsersTimestamp = NoTimestamp]
clearCache(self) ==
    [self EXCEPT !.cachedWorkspaceUsers = NoUsers,
                 !.cachedWorkspaceUsersTimestamp = NoTimestamp,
                 !.cachedAtlassianUsers = NoUsers,
                 !.cachedAtlassianUsersTimestamp = NoTimestamp]

ClearCache ==
    /\ lc' = clearCache(lc)
    /\ lcRun' = Cleared(lc)
    /\ UNCHANGED <<env, now, ghVars, rtVars, actVars>>

\* Time passes between two calls: the clock is read at the whole
\* multiples of the cache TTL after the start and one second before each.
ClockInstants ==
    {Now0 + k * CACHE_TTL - e : k \in 0..MaxTicks, e \in {0, 1}} \ {Now0 - 1}

Tick ==
    /\ \E t \in ClockInstants : t > now /\ now' = t
    /\ UNCHANGED <<lc, env, lcRun, ghVars, rtVars, actVars>>

\* Somebody joins or leaves the directory.
DirectoryChanges ==
    /\ \E d \in Directories : d # env.workspace /\ env' = [env EXCEPT !.workspace = d]
    /\ UNCHANGED <<lc, now, lcRun, ghVars, rtVars, actVars>>

InitLC ==
    /\ \E v \in SuspendStopListEnv, dryRun \in BOOLEAN :
          lc = NewSync(v, dryRun, GRACE_PERIOD_DAYS_DEFAULT)
    /\ env \in Worlds
    /\ now = Now0
    /\ lcRun = NoResult
    /\ IdleGH /\ IdleRetry /\ IdleAct

NextLC == SyncSuspensions \/ Check3MonthInactivity \/ Check6MonthInactivity

SpecLC == InitLC /\ [][NextLC]_vars

\* The cache over time: one account in the tenant, the clock and the
\* directory moving between the calls.
CacheWorlds ==
    {[workspace |-> d,
      tenant |-> <<Account("a1", Ann, "active", NoDate)>>,
      activity |-> [id \in AccountIds2 |->
                       IF id = "a1"
                       THEN Some(<<DaysAgo(INACTIVITY_SUSPENSION_DAYS + 1)>>)
                       ELSE NoProductAccess]] : d \in Directories}

InitCache ==
    /\ \E dryRun \in BOOLEAN : lc = NewSync(Unset, dryRun, GRACE_PERIOD_DAYS_DEFAULT)
    /\ env \in CacheWorlds
    /\ now = Now0
    /\ lcRun = NoResult
    /\ IdleGH /\ IdleRetry /\ IdleAct

NextCache ==
    \/ SyncSuspensions \/ Check3MonthInactivity \/ Check6MonthInactivity
    \/ ClearCache \/ Tick \/ DirectoryChanges

SpecCache == InitCache /\ [][NextCache]_vars

(***************************************************************************)
(* syncMembers and syncSuspensions called again and again in one process,  *)
(* as the scheduled job does, the directory changing in between.           *)
(***************************************************************************)
SmallGhSnapshots == {d \in GhSnapshots : Len(d) <= 1}

GhDirectoryChanges ==
    /\ \E d \in SmallGhSnapshots : d # directory /\ directory' = d
    /\ UNCHANGED <<removeStopList, members, invites, syncResult, lcVars, rtVars, actVars>>

InitPeriodic ==
    /\ removeStopList = <<>>
    /\ directory \in SmallGhSnapshots
    /\ members \in SUBSET GhLogins
    /\ invites \in SUBSET (GhLogins \ members)
    /\ syncResult = NoResult
    /\ lc = NewSync(Unset, TRUE, GRACE_PERIOD_DAYS_DEFAULT)
    /\ env \in CacheWorlds
    /\ now = Now0
    /\ lcRun = NoResult
    /\ IdleRetry /\ IdleAct

NextPeriodic ==
    SyncMembers \/ SyncMembersFetchFails \/ SyncSuspensions \/ GhDirectoryChanges

SpecPeriodic == InitPeriodic /\ [][NextPeriodic]_vars

(***************************************************************************)
(* Both reconcilers of one process, each with its allowlist, the lists     *)
(* naming identities of both systems.                                      *)
(***************************************************************************)
\* REMOVE_STOP_LIST and SUSPEND_STOP_LIST as the operator may set them:
\* unset, or naming a GitHub login and an account email alike.
RemoveStopListCrossEnv ==
    {Unset, EnvList(<<Str("carol"), Written("carol", FALSE, TRUE), Str("ann@x")>>)}
SuspendStopListCrossEnv ==
    {Unset, EnvList(<<Str("carol")>>), EnvList(<<Str("ann@x"), Str("carol")>>)}

\* The directory links carol or nobody; carol is a member or not.
ListDirectories ==
    {d \in SmallGhSnapshots : \A i \in 1..Len(d) : d[i].GitHub_Username.base = "carol"}

\* One account, Ann, out of the directory: active and three months
\* inactive, or suspended and six months inactive.
ListWorlds ==
    {[workspace |-> <<>>,
      tenant |-> <<Account("a1", Ann, "active", NoDate)>>,
      activity |-> [id \in AccountIds2 |->
                       IF id = "a1" THEN Some(<<DaysAgo(INACTIVITY_SUSPENSION_DAYS + 1)>>)
                       ELSE NoProductAccess]],
     [workspace |-> <<>>,
      tenant |-> <<Account("a1", Ann, "inactive", NoDate)>>,
      activity |-> [id \in AccountIds2 |->
                       IF id = "a1" THEN Some(<<DaysAgo(INACTIVITY_DELETION_DAYS + 1)>>)
                       ELSE NoProductAccess]]}

InitLists ==
    /\ \E v \in RemoveStopListCrossEnv : removeStopList = removeStopListOf(v)
    /\ directory \in ListDirectories
    /\ members \in SUBSET {Str("carol")}
    /\ invites = {}
    /\ syncResult = NoResult
    /\ \E v \in SuspendStopListCrossEnv, dryRun \in BOOLEAN :
          lc = NewSync(v, dryRun, GRACE_PERIOD_DAYS_DEFAULT)
    /\ env \in ListWorlds
    /\ now = Now0
    /\ lcRun = NoResult
    /\ IdleRetry /\ IdleAct

NextLists ==
    \/ SyncMembers
    \/ SyncSuspensions \/ Check3MonthInactivity \/ Check6MonthInactivity

SpecLists == InitLists /\ [][NextLists]_vars

(***************************************************************************)
(* The process.  Two cron jobs and the lifecycle commands call the checks  *)
(* of the one WorkspaceAtlassianSync instance; a check gives up the thread *)
(* at each await, and whatever else is ready runs.  The tenant has one     *)
(* account, out of the directory and long inactive.                        *)
(***************************************************************************)
\* config.ts:45 and 66: second, minute and hour of the default schedules
\* ('0 0 0 * * *': every day at 00:00:00).
CRON_SCHEDULE == <<0, 0, 0>>
ATLASSIAN_INACTIVITY_CRON_SCHEDULE == <<0, 0, 0>>

CronTasks == {"syncPeriodically", "suspendAtlassianUsersPeriodically"}
Commands == {"command"}
Tasks == CronTasks \cup Commands

\* config.ts:367-376
ScheduleOf(task) ==
    IF task = "syncPeriodically" THEN CRON_SCHEDULE ELSE ATLASSIAN_INACTIVITY_CRON_SCHEDULE

\* The job fires when the clock (seconds since a midnight) matches.
Fires(schedule, clock) ==
    clock % DAY = schedule[1] + 60 * schedule[2] + 3600 * schedule[3]

\* config.ts:127, 148, 173
CommandChecks == {"syncSuspensions", "check3MonthInactivity", "check6MonthInactivity"}

\* A snapshot is named by the task whose fetch produced it and the time at
\* which that fetch completed; a tenant snapshot has the status of the
\* account at the time it was listed.
NoSnapshot == [by |-> "none", status |-> "none", at |-> 0]
Snapshot(by, status, at) == [by |-> by, status |-> status, at |-> at]
NoCached == [isNull |-> TRUE, value |-> NoSnapshot]

\* A task between two awaits.  startedBefore: the tasks whose tenant
\* listing request was under way when this task cleared the cache;
\* earlier: the tasks that had returned when this task called its check.
TaskIdle ==
    [pc |-> "idle", check |-> "none", cleared |-> FALSE, startedBefore |-> {},
     earlier |-> {},
     workspaceUsers |-> NoSnapshot, atlassianUsers |-> NoSnapshot, called |-> "none"]

AppStart ==
    [pc |-> "running",
     clock |-> 0,
     cachedWorkspaceUsers |-> NoCached, cachedWorkspaceUsersTimestamp |-> NoTimestamp,
     cachedAtlassianUsers |-> NoCached, cachedAtlassianUsersTimestamp |-> NoTimestamp,
     directoryId |-> FALSE,
     directoryIdRequests |-> 0,
     account_status |-> "active",
     task |-> [t \in Tasks |-> TaskIdle]]

\* A task whose function has returned or thrown: its locals are gone.
TaskDone == [TaskIdle EXCEPT !.pc = "done"]
TaskRaised == [TaskIdle EXCEPT !.pc = "raised"]

\* The positions of a task inside a check.
InCheck == {"fetchingWorkspace", "gotWorkspace", "fetchingDirectoryId",
            "fetchingTenant", "gotTenant", "mutating"}

\* config.ts:121-127, 192-208, 270-280: nothing is tested before a check is
\* called, whatever else is running.
ExcludedWhileRunning(a) == \E t \in Tasks : a.task[t].pc \in InCheck
Excluded(a) == FALSE

\* atlassian-sync.ts:103-109, on the slots of the process.
AppClearCachePayloads(a) ==
    [a EXCEPT !.cachedWorkspaceUsers = NoCached,
              !.cachedAtlassianUsers = NoCached]
AppClearCache(a) ==
    [a EXCEPT !.cachedWorkspaceUsers = NoCached,
              !.cachedWorkspaceUsersTimestamp = NoTimestamp,
              !.cachedAtlassianUsers = NoCached,
              !.cachedAtlassianUsersTimestamp = NoTimestamp]

\* The tasks whose check has returned.
Returned(a) == {t \in Tasks : a.task[t].pc = "done"}

\* atlassian-sync.ts:127-140, up to the await: the slot is served, or the
\* fetch is started.  A check starts with this read (179, 251, 342).
EnterCheck(a, t, check) ==
    IF ~a.cachedWorkspaceUsers.isNull /\ isCacheValid(a.cachedWorkspaceUsersTimestamp, a.clock)
    THEN [a EXCEPT !.task[t].pc = "gotWorkspace",
                   !.task[t].check = check,
                   !.task[t].earlier = Returned(a),
                   !.task[t].workspaceUsers = a.cachedWorkspaceUsers.value]
    ELSE [a EXCEPT !.task[t].pc = "fetchingWorkspace",
                   !.task[t].check = check,
                   !.task[t].earlier = Returned(a)]

\* config.ts:367-376, 192-199, 270-280: the job fires; syncPeriodically
\* awaits syncMembers first, suspendAtlassianUsersPeriodically calls
\* check3MonthInactivity.
CronFires(t) ==
    /\ t \in CronTasks
    /\ app.task[t].pc = "idle"
    /\ Fires(ScheduleOf(t), app.clock)
    /\ ~Excluded(app)
    /\ app' = IF t = "syncPeriodically"
              THEN [app EXCEPT !.task[t].pc = "github"]
              ELSE EnterCheck(app, t, "check3MonthInactivity")
    /\ UNCHANGED <<act, ghVars, lcVars, rtVars>>

\* config.ts:198-208: syncMembers settles, returned or caught, and
\* syncSuspensions is called.
GitHubSyncSettles(t) ==
    /\ app.task[t].pc = "github"
    /\ ~Excluded(app)
    /\ app' = EnterCheck(app, t, "syncSuspensions")
    /\ UNCHANGED <<act, ghVars, lcVars, rtVars>>

\* The tasks whose tenant listing request is under way.
TenantStarted(a) == {t \in Tasks : a.task[t].pc = "fetchingTenant"}

\* config.ts:121-127, 142-148, 167-173: a command clears the cache and
\* calls its check.
Command(t) ==
    /\ t \in Commands
    /\ app.task[t].pc = "idle"
    /\ ~Excluded(app)
    /\ \E check \in CommandChecks :
          app' = EnterCheck([AppClearCache(app) EXCEPT
                                !.task[t].cleared = TRUE,
                                !.task[t].startedBefore = TenantStarted(app)],
                            t, check)
    /\ UNCHANGED <<act, ghVars, lcVars, rtVars>>

\* atlassian-sync.ts:139-143: getWorkspaceUsers settles; the slot is
\* written and the users are returned.
WorkspaceFetchSettles(t) ==
    /\ app.task[t].pc = "fetchingWorkspace"
    /\ app' = LET users == Snapshot(t, "none", app.clock)
              IN [app EXCEPT !.cachedWorkspaceUsers = Some(users),
                             !.cachedWorkspaceUsersTimestamp = Some(app.clock),
                             !.task[t].workspaceUsers = users,
                             !.task[t].pc = "gotWorkspace"]
    /\ UNCHANGED <<act, ghVars, lcVars, rtVars>>

\* part_003:363-365
HasDirectoryId(a) == a.directoryId

\* atlassian-sync.ts:151-163 and part_003:406-408, 362-379, up to the await:
\* the tenant slot is served, or getOrganizationUsers is called, which
\* needs the directory id first.
ReadTenant(t) ==
    /\ app.task[t].pc = "gotWorkspace"
    /\ app' =
         IF ~app.cachedAtlassianUsers.isNull
            /\ isCacheValid(app.cachedAtlassianUsersTimestamp, app.clock)
         THEN [app EXCEPT !.task[t].pc = "gotTenant",
                          !.task[t].atlassianUsers = app.cachedAtlassianUsers.value]
         ELSE [app EXCEPT !.task[t].pc = IF HasDirectoryId(app) THEN "fetchingTenant"
                                         ELSE "fetchingDirectoryId"]
    /\ UNCHANGED <<act, ghVars, lcVars, rtVars>>

\* part_003:371-395: the directories request settles; on success the id is
\* stored, on failure the listing, and with it the check, throws.
DirectoryIdSettles(t) ==
    /\ app.task[t].pc = "fetchingDirectoryId"
    /\ \E ok \in BOOLEAN :
          app' = IF ~ok THEN [app EXCEPT !.task[t] = TaskRaised]
                 ELSE [app EXCEPT !.directoryId = TRUE,
                                  !.directoryIdRequests = @ + 1,
                                  !.task[t].pc = "fetchingTenant"]
    /\ UNCHANGED <<act, ghVars, lcVars, rtVars>>

\* part_003:418-512 and atlassian-sync.ts:163-167: the listing settles; the
\* slot is written and the users are returned.
TenantFetchSettles(t) ==
    /\ app.task[t].pc = "fetchingTenant"
    /\ app' = LET users == Snapshot(t, app.account_status, app.clock)
              IN [app EXCEPT !.cachedAtlassianUsers = Some(users),
                             !.cachedAtlassianUsersTimestamp = Some(app.clock),
                             !.task[t].atlassianUsers = users,
                             !.task[t].pc = "gotTenant"]
    /\ UNCHANGED <<act, ghVars, lcVars, rtVars>>

\* atlassian-sync.ts:192, 258, 349: the status of the accounts a check
\* acts on.
SelectsStatus(check) == IF check = "syncSuspensions" THEN "active" ELSE StatusOf(check)

\* atlassian-sync.ts:217, 304, 395: the call a check makes for an account.
CallOf(check) == IF check = "check6MonthInactivity" THEN "deleteUser" ELSE "suspendUser"

\* atlassian-sync.ts:188-217, 258-304, 349-395: the account is selected on
\* the status the snapshot has for it, and the call is made.
Evaluate(t) ==
    /\ app.task[t].pc = "gotTenant"
    /\ app' =
         IF app.task[t].atlassianUsers.status # SelectsStatus(app.task[t].check)
         THEN [app EXCEPT !.task[t] = TaskDone]
         ELSE [app EXCEPT !.task[t].pc = "mutating",
                          !.task[t].called = CallOf(app.task[t].check)]
    /\ UNCHANGED <<act, ghVars, lcVars, rtVars>>

\* The suspendUser / deleteUser call settles (atlassian-sync.ts:217-232,
\* 304-323, 395-414) and the check returns.
MutationSettles(t) ==
    /\ app.task[t].pc = "mutating"
    /\ app' = [app EXCEPT !.task[t] = TaskDone,
                          !.account_status =
                              IF @ = "deleted" \/ app.task[t].called = "deleteUser"
                              THEN "deleted" ELSE "inactive"]
    /\ UNCHANGED <<act, ghVars, lcVars, rtVars>>

\* Ten minutes pass.
AppTick ==
    /\ app.clock < CACHE_TTL
    /\ app' = [app EXCEPT !.clock = CACHE_TTL]
    /\ UNCHANGED <<act, ghVars, lcVars, rtVars>>

InitApp ==
    /\ app = AppStart
    /\ act = ActIdle
    /\ IdleGH /\ IdleLC /\ IdleRetry

NextApp ==
    \/ \E t \in Tasks :
          \/ CronFires(t) \/ GitHubSyncSettles(t) \/ Command(t)
          \/ WorkspaceFetchSettles(t) \/ ReadTenant(t) \/ DirectoryIdSettles(t)
          \/ TenantFetchSettles(t) \/ Evaluate(t) \/ MutationSettles(t)
    \/ AppTick

SpecApp == InitApp /\ [][NextApp]_vars

(***************************************************************************)
(* The three entry points side by side: a process runs syncMembers, or the *)
(* lifecycle checks, or lists the tenant.                                  *)
(***************************************************************************)
InitRuns == InitGH \/ InitLC \/ InitPages

\* The clock is 0 exactly when no lifecycle instance was constructed.
GitHubRun == now = 0 /\ pg = PagesIdle /\ NextGH
LifecycleRun == now # 0 /\ NextLC
TenantListing == now = 0 /\ IdleGH /\ NextPages

NextRuns == GitHubRun \/ LifecycleRun \/ TenantListing

SpecRuns == InitRuns /\ [][NextRuns]_vars

(***************************************************************************)
(* Claims on syncMembers (checked under SpecGH)                            *)
(***************************************************************************)
InvitedUsernames(r) == {r.invited[i].username : i \in 1..Len(r.invited)}

C2_AllowlistNeverRemoved ==
    syncResult.status = "returned" =>
        \A m \in Range(syncResult.removeCalls) \cup Range(syncResult.removed) :
            normalizeGitHubUsername(m) \notin
                {normalizeGitHubUsername(e) : e \in Range(removeStopList)}


\* The wanted usernames: the linked usernames of the directory users that
\* have one, lower-cased and trimmed.
Wanted ==
    {normalizeGitHubUsername(directory[i].GitHub_Username) :
        i \in {j \in 1..Len(directory) : Truthy(directory[j].GitHub_Username)}}

\* C11: syncMembers attempts an invitation exactly for the wanted usernames
\* that are neither members nor pending invitations, and a removal exactly
\* for the members that are neither wanted nor on the allowlist.
C11_InviteAndRemoveSets ==
    syncResult.status = "returned" =>
        /\ Range(syncResult.lookupCalls) =
              Wanted \ (syncResult.currentMembers \cup syncResult.pendingInvites)
        /\ Range(syncResult.removeCalls) =
              {m \in syncResult.currentMembers :
                  m \notin Wanted /\ ~InStopList(removeStopList, m)}


\* toInvite and toRemove of the last run, from what it fetched.
ToInvite ==
    {u \in Range(workspaceGitHubUsernames(directory)) :
        u \notin syncResult.currentMembers /\ u \notin syncResult.pendingInvites}
ToRemove ==
    {mb \in syncResult.currentMembers :
        mb \notin Range(workspaceGitHubUsernames(directory))
        /\ ~InStopList(removeStopList, mb)}
ErrorsFor(who) ==
    Cardinality({i \in 1..Len(syncResult.errors) : syncResult.errors[i].who = who})

\* C17: in syncMembers every username of toInvite and every member of
\* toRemove is attempted once, whatever failed before it; each of them ends
\* either in invited / removed or with exactly one entry in errors; and the
\* run returns its result.
C17_FailuresDoNotStopBatch ==
    syncResult.status = "returned" =>
        /\ Range(syncResult.lookupCalls) = ToInvite
        /\ Len(syncResult.lookupCalls) = Cardinality(ToInvite)
        /\ Range(syncResult.removeCalls) = ToRemove
        /\ Len(syncResult.removeCalls) = Cardinality(ToRemove)
        /\ \A u \in ToInvite :
              IF u \in InvitedUsernames(syncResult) THEN ErrorsFor(u) = 0 ELSE ErrorsFor(u) = 1
        /\ \A mb \in ToRemove :
              IF mb \in Range(syncResult.removed) THEN ErrorsFor(mb) = 0 ELSE ErrorsFor(mb) = 1
        /\ Len(syncResult.errors) =
              Cardinality(ToInvite \ InvitedUsernames(syncResult))
              + Cardinality(ToRemove \ Range(syncResult.removed))

\* The first invitation failed, a later one went through, and so did a
\* removal.
C17_Witness ==
    /\ syncResult.status = "returned"
    /\ Len(syncResult.lookupCalls) = 2
    /\ syncResult.errors # <<>>
    /\ syncResult.errors[1].who = syncResult.lookupCalls[1]
    /\ InvitedUsernames(syncResult) = {syncResult.lookupCalls[2]}
    /\ syncResult.removed # <<>>

\* C24: a syncMembers run that returns has the member list and the pending
\* invitations as the organisation has them at the time of the run and
\* computes toInvite and toRemove from the directory as it is at that time;
\* returning or raising, it leaves the cache slots of the lifecycle
\* reconciler, and the record of its last check, as they were.
C24_SyncMembersFetchesLive ==
    [][(syncResult' # syncResult /\ syncResult'.status \in {"returned", "raised"}) =>
          /\ lc' = lc /\ lcRun' = lcRun
          /\ syncResult'.status = "returned" =>
                /\ syncResult'.currentMembers = {toLowerCase(mb) : mb \in members}
                /\ syncResult'.pendingInvites = {toLowerCase(iv) : iv \in invites}
                /\ Range(syncResult'.lookupCalls) =
                      {u \in Range(workspaceGitHubUsernames(directory)) :
                          /\ u \notin syncResult'.currentMembers
                          /\ u \notin syncResult'.pendingInvites}
                /\ Range(syncResult'.removeCalls) =
                      {mb \in syncResult'.currentMembers :
                          /\ mb \notin Range(workspaceGitHubUsernames(directory))
                          /\ ~InStopList(removeStopList, mb)}]_vars

\* A run found the invitation an earlier run in this process had sent for a
\* linked username and did not send it again, the lifecycle cache being
\* filled.
C24_Witness ==
    /\ syncResult.status = "returned"
    /\ Str("alice") \in invites
    /\ Str("alice") \in syncResult.pendingInvites
    /\ Str("alice") \in Range(workspaceGitHubUsernames(directory))
    /\ syncResult.lookupCalls = <<>>
    /\ ~lc.cachedWorkspaceUsers.isNull

\* How often a call was made for one username.
CallsFor(calls, who) == Cardinality({i \in 1..Len(calls) : calls[i] = who})

\* The linked usernames of the directory, lower-cased, as often as they are
\* carried.
LinkedAsCarried == MapLinked(directory)

\* C31: within one syncMembers run there is one id lookup and at most one
\* createInvitation call per username to invite, and one removeMember call
\* per member to remove, also when a call fails and when several directory
\* users carry the same linked username; nothing else is called.
C31_AttemptedOnce ==
    syncResult.status = "returned" =>
        /\ \A u \in Range(LinkedAsCarried) :
              /\ CallsFor(syncResult.lookupCalls, u) = IF u \in ToInvite THEN 1 ELSE 0
              /\ CallsFor(syncResult.inviteCalls, u) <= CallsFor(syncResult.lookupCalls, u)
              /\ ErrorsFor(u) <= 1
        /\ \A mb \in syncResult.currentMembers :
              /\ CallsFor(syncResult.removeCalls, mb) = IF mb \in ToRemove THEN 1 ELSE 0
              /\ ErrorsFor(mb) <= 1
        /\ Range(syncResult.lookupCalls) \subseteq Range(LinkedAsCarried)
        /\ Range(syncResult.inviteCalls) \subseteq Range(syncResult.lookupCalls)
        /\ Range(syncResult.removeCalls) \subseteq syncResult.currentMembers

\* Two directory users carry the username alice; the one invitation call
\* made for it failed and was not repeated, and a removal failed too.
C31_Witness ==
    /\ syncResult.status = "returned"
    /\ CallsFor(LinkedAsCarried, Str("alice")) = 2
    /\ syncResult.inviteCalls = <<Str("alice")>>
    /\ syncResult.invited = <<>>
    /\ syncResult.removeCalls # <<>>
    /\ syncResult.removed = <<>>

\* The entries of errors that name a username, by kind.
ErrorsOfKind(kind, who) ==
    Cardinality({i \in 1..Len(syncResult.errors) :
                    syncResult.errors[i] = [kind |-> kind, who |-> who]})

\* C32: createInvitation is called only for a username whose lookup answered
\* with an id and for which a directory email was found; a username for
\* which either is missing gets one error entry, no invitation call and no
\* entry in invited; every entry of invited carries a non-empty email.
C32_InviteNeedsIdAndEmail ==
    syncResult.status = "returned" =>
        /\ \A u \in Range(syncResult.inviteCalls) :
              u \in syncResult.resolved /\ Truthy(FindEmail(directory, u))
        /\ \A u \in Range(syncResult.lookupCalls) :
              (u \notin syncResult.resolved \/ ~Truthy(FindEmail(directory, u)))
                  => /\ ErrorsFor(u) = 1
                     /\ u \notin Range(syncResult.inviteCalls)
                     /\ u \notin InvitedUsernames(syncResult)
        /\ \A u \in Range(syncResult.lookupCalls) :
              (u \in syncResult.resolved /\ ~Truthy(FindEmail(directory, u)))
                  => ErrorsOfKind("notfound", u) = 1
        /\ \A i \in 1..Len(syncResult.invited) :
              /\ Truthy(syncResult.invited[i].email)
              /\ syncResult.invited[i].email = FindEmail(directory, syncResult.invited[i].username)
              /\ syncResult.invited[i].username \in Range(syncResult.inviteCalls)

\* The lookup of alice answered with an id, but the first directory user
\* that carries the username has no email: an error and no invitation,
\* while carol was invited with her email.
C32_Witness ==
    /\ syncResult.status = "returned"
    /\ Str("alice") \in syncResult.resolved
    /\ ~Truthy(FindEmail(directory, Str("alice")))
    /\ Str("alice") \notin Range(syncResult.inviteCalls)
    /\ ErrorsOfKind("notfound", Str("alice")) = 1
    /\ Len(syncResult.invited) = 1

\* A run in which nothing failed and nothing was skipped.
AllSucceeded(r) == r.status = "returned" /\ r.errors = <<>>

\* The organisation as the next run reads it reflects the run: every
\* invited username is a pending invitation, every removed member is gone
\* and nothing else changed.
Reflects(r, next) ==
    /\ next.pendingInvites = r.pendingInvites \cup InvitedUsernames(r)
    /\ next.currentMembers = r.currentMembers \ Range(r.removed)

RetryableFailure(answer) ==
    \/ answer.kind = "http" /\ answer.status = 429
    \/ answer.kind = "network" /\ answer.code \in {"ECONNRESET", "ETIMEDOUT"}

Attempts == IF rt.pc = "idle" THEN 0 ELSE Len(rt.answers)

\* C7: a wrapped call that fails with a retryable error on attempts 1, 2 and
\* 3 and succeeds on attempt 4 returns the success, having waited exactly
\* three times: 1000 ms, 2000 ms, 4000 ms, in that order.
C7_ThreeFailuresThenSuccess ==
    (/\ Attempts = 4
     /\ \A i \in 1..3 : RetryableFailure(rt.answers[i])
     /\ rt.answers[4] = Ok)
    => /\ rt.pc = "returned"
       /\ rt.result = rt.answers[4]
       /\ rt.delays = <<1000, 2000, 4000>>

C7_Witness ==
    /\ Attempts = 4
    /\ \A i \in 1..3 : RetryableFailure(rt.answers[i])
    /\ rt.answers[4] = Ok
    /\ rt.pc = "returned"

\* C8: a failure that is not a rate limit, a timeout or a connection reset
\* (for example HTTP 404 or 500) is never retried: the call throws after
\* exactly one attempt and without any delay, whatever the account id.
C8_OnlyRetryableRetried ==
    (Attempts >= 1 /\ rt.answers[1] # Ok /\ ~RetryableFailure(rt.answers[1]))
    => /\ rt.pc = "thrown"
       /\ Attempts = 1
       /\ rt.delays = <<>>

\* C9: a wrapped call is attempted at most 4 times; when all 4 attempts fail
\* with retryable errors it throws the error of the last attempt, having
\* waited exactly 3 times (no delay after the last failure).
C9_BoundedAttempts ==
    /\ Attempts <= 4
    /\ (/\ Attempts = 4
        /\ \A i \in 1..4 : RetryableFailure(rt.answers[i]))
       => /\ rt.pc = "thrown"
          /\ rt.lastError = ErrorMessage(rt.op, rt.accountId, rt.answers[4])
          /\ Len(rt.delays) = 3

C9_Witness ==
    /\ Attempts = 4
    /\ \A i \in 1..4 : RetryableFailure(rt.answers[i])
    /\ rt.answers[3] # rt.answers[4]
    /\ rt.pc = "thrown"


(***************************************************************************)
(* Claims on getMostRecentActivity (checked under SpecAct)                 *)
(***************************************************************************)
ValidInstants(productAccess) ==
    {productAccess[i].t : i \in {j \in 1..Len(productAccess) : productAccess[j].kind = "iso"}}

SetMax(S) == CHOOSE x \in S : \A y \in S : y <= x

\* C10: getMostRecentActivity returns the maximum timestamp among the valid
\* entries of its input, and null when the input is empty or every entry is
\* invalid (empty, or not a parseable timestamp); the value depends only on
\* the entries, not on their order.
C10_MaxOfValidOrNull ==
    act.pc = "done" =>
        /\ act.result =
              IF ValidInstants(act.productAccess) = {} THEN NullActivity
              ELSE IsoStamp(SetMax(ValidInstants(act.productAccess)), TRUE)
        /\ \A other \in SeqsUpTo(Range(act.productAccess), Len(act.productAccess)) :
              (Len(other) = Len(act.productAccess) /\ Range(other) = Range(act.productAccess))
                  => getMostRecentActivity(other) = act.result


(***************************************************************************)
(* Claims on getOrganizationUsers                                          *)
(***************************************************************************)
PagesDone == pg.pc \in {"returned", "raised"}

\* The users of the pages that arrived, in the order of arrival.
Collected == [i \in 1..pg.pageCount |-> i]

\* C15: whatever the server answers, the listing comes to an end; it asks
\* for at most 100 pages and for no URL twice; it ends when a page carries
\* no next cursor, when 100 pages have arrived, or when the next URL was
\* asked for before, and in the last two cases it returns the users
\* collected so far instead of throwing.
C15_ListingTerminates ==
    /\ [](pg.pc # "idle" =>
            /\ Len(pg.requests) <= MAX_PAGES
            /\ Distinct(pg.requests)
            /\ pg.stop = "limit" => pg.pageCount = MAX_PAGES
            /\ pg.stop = "cycle" => UrlOf(pg.nextCursor) \in Range(pg.requests)
            /\ pg.stop = "end" => pg.nextCursor = 0
            /\ pg.stop \in {"limit", "cycle", "end"} =>
                  pg.pc = "returned" /\ pg.result = Listing(Collected))
    /\ <>PagesDone

\* The listing stopped at the ceiling, after 100 pages with 100 different
\* cursors.
C15_Witness ==
    /\ pg.pc = "returned"
    /\ pg.stop = "limit"
    /\ Len(pg.requests) = MAX_PAGES
    /\ pg.result.users = Collected

\* C16: a page request answered 429 ends the listing at once: it was the
\* last request, and the listing returns the users of the pages that
\* arrived before, without throwing.  Any other failure of a page request
\* makes the listing throw, and nothing is returned.
C16_RateLimitStopsListing ==
    (PagesDone /\ pg.answers # <<>>) =>
        LET last == pg.answers[Len(pg.answers)]
        IN /\ last = 429 =>
                /\ pg.pc = "returned"
                /\ pg.result = Listing(Collected)
                /\ Len(pg.requests) = pg.pageCount + 1
                /\ Count(429, pg.answers) = 1
           /\ last \notin {200, 429} =>
                /\ pg.pc = "raised"
                /\ pg.result = NoListing

\* The third page request was answered 429 and the listing returned the
\* users of the first two pages.
C16_Witness ==
    /\ pg.pc = "returned"
    /\ pg.answers = <<200, 200, 429>>
    /\ pg.result.users = <<1, 2>>

(***************************************************************************)
(* Claims on the lifecycle checks                                          *)
(***************************************************************************)
IdsOf(entries) == {entries[i].accountId : i \in 1..Len(entries)}

OnAllowlist(email) ==
    email.base \in {lc.suspendStopList[i].base : i \in 1..Len(lc.suspendStopList)}

ActedOn(r) ==
    IdsOf(r.suspended) \cup IdsOf(r.deleted) \cup Range(r.suspendCalls) \cup Range(r.deleteCalls)

\* C3: an account of the tenant whose email, case and outer blanks aside, is
\* on the suspend-stop allowlist is in neither suspended nor deleted of any
\* of the three checks, and suspendUser / deleteUser is not called for it,
\* whatever runs came before.
C3_AllowlistNeverActedOn ==
    lcRun.status = "returned" =>
        \A i \in 1..Len(lcRun.atlassianUsers) :
            OnAllowlist(lcRun.atlassianUsers[i].email)
                => lcRun.atlassianUsers[i].account_id \notin ActedOn(lcRun.run)

\* An allowlisted account that is out of the directory and long inactive
\* went through the 90-day check, which acted on the other account.
C3_Witness ==
    /\ lcRun.status = "returned"
    /\ lcRun.run.check = "check3MonthInactivity"
    /\ lcRun.workspaceUsers = <<>>
    /\ Len(lcRun.atlassianUsers) = 2
    /\ OnAllowlist(lcRun.atlassianUsers[1].email)
    /\ lcRun.atlassianUsers[1].account_status = "active"
    /\ env.activity["a1"] = Some(<<DaysAgo(200), DaysAgo(INACTIVITY_SUSPENSION_DAYS + 1)>>)
    /\ IdsOf(lcRun.run.suspended) = {"a2"}

\* The same check in the other mode, on the snapshots and the API answers
\* of the last run.
Twin(dryRun, api) ==
    CheckRun(lcRun.run.check, [lc EXCEPT !.dryRun = dryRun],
             lcRun.workspaceUsers, lcRun.atlassianUsers, env.activity, now, api)

MutationFailed(e) == e.cause \in {"suspendUser", "deleteUser"}
FailedCalls(r) ==
    {r.errors[i].accountId : i \in {j \in 1..Len(r.errors) : MutationFailed(r.errors[j])}}
Without(entries, ids) == SelectSeq(entries, LAMBDA e : e.accountId \notin ids)
OtherErrors(errors) == SelectSeq(errors, LAMBDA e : ~MutationFailed(e))

DryLiveAgree(dry, live) ==
    /\ dry.suspendCalls = <<>> /\ dry.deleteCalls = <<>>
    /\ dry.lookups = live.lookups
    /\ FailedCalls(live) \subseteq IdsOf(dry.suspended) \cup IdsOf(dry.deleted)
    /\ Without(dry.suspended, FailedCalls(live)) = live.suspended
    /\ Without(dry.deleted, FailedCalls(live)) = live.deleted
    /\ dry.errors = OtherErrors(live.errors)

DryLiveIdentical(dry, live) ==
    /\ dry.suspended = live.suspended
    /\ dry.deleted = live.deleted
    /\ dry.errors = live.errors

LiveTwins ==
    {api \in CallFailures(lcRun.atlassianUsers) : api.lookupFails = lcRun.api.lookupFails}

\* C4: on the same directory, tenant and activity snapshots, the dry run and
\* the live run of a check make the same lookups and report the same
\* entries, except for the accounts whose live suspend or delete call
\* failed: those are in suspended / deleted of the dry run and in errors of
\* the live run.  The dry run makes no suspend or delete call.
C4_DryLiveAgreeButFailedCalls ==
    lcRun.status = "returned" =>
        IF lcRun.run.dryRun
        THEN \A api \in LiveTwins : DryLiveAgree(lcRun.run, Twin(FALSE, api))
        ELSE DryLiveAgree(Twin(TRUE, lcRun.api), lcRun.run)

\* A live run in which one call failed and another went through.
C4_Witness ==
    /\ lcRun.status = "returned"
    /\ ~lcRun.run.dryRun
    /\ FailedCalls(lcRun.run) # {}
    /\ lcRun.run.suspended # <<>>

\* C4 as stated: the result sets are identical, also when a live suspend or
\* delete call fails.
C4_DryLiveIdenticalAlways ==
    lcRun.status = "returned" =>
        IF lcRun.run.dryRun
        THEN \A api \in LiveTwins : DryLiveIdentical(lcRun.run, Twin(FALSE, api))
        ELSE DryLiveIdentical(Twin(TRUE, lcRun.api), lcRun.run)

\* C5: a check in dry-run mode calls neither suspendUser nor deleteUser; it
\* reads both snapshots, looks up the activity of the accounts the live
\* check would look up, and reports in suspended / deleted the accounts the
\* live check would call suspendUser / deleteUser for.
C5_DryRunReadsAndReportsOnly ==
    (lcRun.status = "returned" /\ lcRun.run.dryRun) =>
        /\ lcRun.run.suspendCalls = <<>>
        /\ lcRun.run.deleteCalls = <<>>
        /\ \A api \in LiveTwins :
              /\ lcRun.run.lookups = Twin(FALSE, api).lookups
              /\ [i \in 1..Len(lcRun.run.suspended) |-> lcRun.run.suspended[i].accountId]
                    = Twin(FALSE, api).suspendCalls
              /\ [i \in 1..Len(lcRun.run.deleted) |-> lcRun.run.deleted[i].accountId]
                    = Twin(FALSE, api).deleteCalls

\* A dry run of the 180-day check that looked up two accounts and reports
\* one as deleted.
C5_Witness ==
    /\ lcRun.status = "returned"
    /\ lcRun.run.dryRun
    /\ lcRun.run.check = "check6MonthInactivity"
    /\ Len(lcRun.run.lookups) = 2
    /\ lcRun.run.deleted # <<>>

AgeBelowTtl(payload, timestamp) ==
    ~payload.isNull /\ ~timestamp.isNull /\ now - timestamp.value < CACHE_TTL

\* One read through a slot, seen from outside: the slot before and after,
\* what the API would answer, what the read gave, how often it fetched.
SlotRead(payload, timestamp, payloadAfter, timestampAfter, live, used, fetched, threw) ==
    IF AgeBelowTtl(payload, timestamp)
    THEN /\ fetched = 0
         /\ ~threw
         /\ used = payload.value
         /\ payloadAfter = payload /\ timestampAfter = timestamp
    ELSE /\ fetched = 1
         /\ ~threw => /\ used = live
                      /\ payloadAfter = Some(live)
                      /\ timestampAfter = Some(now)

IsRun ==
    \/ lcRun' # lcRun /\ lcRun'.status # "cleared"
    \/ lc' # lc /\ ~lc'.cachedWorkspaceUsers.isNull

\* C6: in every check, the read of the directory slot and the read of the
\* tenant slot each either find the slot filled and younger than 10 minutes,
\* fetch nothing, return the cached payload and leave the slot as it is, or
\* fetch exactly once and, the fetch succeeding, return what was fetched and
\* set payload and timestamp of the slot to it and to the time of the read.
C6_CacheReadOrOneFetch ==
    [][IsRun =>
          /\ SlotRead(lc.cachedWorkspaceUsers, lc.cachedWorkspaceUsersTimestamp,
                      lc'.cachedWorkspaceUsers, lc'.cachedWorkspaceUsersTimestamp,
                      env.workspace, lcRun'.workspaceUsers,
                      Count("workspace", lcRun'.fetches), lcRun'.run.failed = "workspace")
          /\ lcRun'.run.failed # "workspace" =>
                SlotRead(lc.cachedAtlassianUsers, lc.cachedAtlassianUsersTimestamp,
                         lc'.cachedAtlassianUsers, lc'.cachedAtlassianUsersTimestamp,
                         env.tenant, lcRun'.atlassianUsers,
                         Count("tenant", lcRun'.fetches), lcRun'.run.failed = "tenant")]_vars

\* A check read the directory from its slot one second before it expires
\* and fetched the tenant, whose slot was empty.
C6_Witness ==
    /\ lcRun.status = "returned"
    /\ lcRun.fetches = <<"tenant">>
    /\ lc.cachedWorkspaceUsersTimestamp = Some(now - (CACHE_TTL - 1))
    /\ lc.cachedAtlassianUsersTimestamp = Some(now)

InDirectory(email) ==
    email.base \in {lcRun.workspaceUsers[i].primaryEmail.base : i \in 1..Len(lcRun.workspaceUsers)}

\* Whole days from an instant to now.
WholeDaysSince(t) == (now - t) \div DAY

\* The accounts of the snapshot a check tried to act on: reported, or with
\* an error entry.
ErrorIds(r) == {r.errors[i].accountId : i \in 1..Len(r.errors)}
Candidate(user) ==
    /\ ~InDirectory(user.email)
    /\ ~OnAllowlist(user.email)

\* C12: in syncSuspensions an active account that is out of the directory
\* and off the allowlist is left alone when it joined the organisation at
\* most gracePeriodDays whole days ago, and is suspended (reported, or the
\* call tried) when it joined earlier or has no join date.
C12_GracePeriod ==
    (lcRun.status = "returned" /\ lcRun.run.check = "syncSuspensions") =>
        \A i \in 1..Len(lcRun.atlassianUsers) :
            LET user == lcRun.atlassianUsers[i]
                id == user.account_id
            IN (user.account_status = "active" /\ Candidate(user)) =>
                  IF /\ ~user.added_to_org.isNull
                     /\ WholeDaysSince(user.added_to_org.value.t) <= lc.gracePeriodDays
                  THEN id \notin ActedOn(lcRun.run) \cup ErrorIds(lcRun.run)
                  ELSE id \in IdsOf(lcRun.run.suspended) \cup ErrorIds(lcRun.run)

\* An account that joined exactly gracePeriodDays days ago was left alone by
\* a live syncSuspensions.
C12_Witness ==
    /\ lcRun.status = "returned"
    /\ lcRun.run.check = "syncSuspensions"
    /\ ~lcRun.run.dryRun
    /\ \E i \in 1..Len(lcRun.atlassianUsers) :
          /\ lcRun.atlassianUsers[i].account_status = "active"
          /\ Candidate(lcRun.atlassianUsers[i])
          /\ lcRun.atlassianUsers[i].added_to_org = Some(DaysAgo(lc.gracePeriodDays))
          /\ lcRun.atlassianUsers[i].account_id \notin ActedOn(lcRun.run)

\* The instants of the parseable activity timestamps of an account.
ValidActivity(id) ==
    IF env.activity[id].isNull THEN {} ELSE ValidInstants(env.activity[id].value)

CallsWentThrough(id) == id \notin lcRun.api.lookupFails \cup lcRun.api.mutateFails

\* C13: check3MonthInactivity reports an active account that is out of the
\* directory and off the allowlist (its lookup and its suspend call going
\* through) in suspended exactly when the whole days since its most recent
\* activity are more than 90, with inactiveDays equal to that number of days.
C13_SuspendedIffOver90Days ==
    (lcRun.status = "returned" /\ lcRun.run.check = "check3MonthInactivity") =>
        \A i \in 1..Len(lcRun.atlassianUsers) :
            LET user == lcRun.atlassianUsers[i]
                id == user.account_id
            IN (user.account_status = "active" /\ Candidate(user) /\ CallsWentThrough(id)) =>
                  IF /\ ValidActivity(id) # {}
                     /\ WholeDaysSince(SetMax(ValidActivity(id))) > INACTIVITY_SUSPENSION_DAYS
                  THEN \E j \in 1..Len(lcRun.run.suspended) :
                          /\ lcRun.run.suspended[j].accountId = id
                          /\ lcRun.run.suspended[j].inactiveDays =
                                WholeDaysSince(SetMax(ValidActivity(id)))
                  ELSE id \notin IdsOf(lcRun.run.suspended)

NoActivityRecords(id) ==
    env.activity[id].isNull \/ env.activity[id].value = <<>>

\* C14: an account without any activity record (the product list absent or
\* empty) is not suspended by check3MonthInactivity and not deleted by
\* check6MonthInactivity, no call is made for it, and the lookup that
\* answered so leaves no error entry, whatever the status of the account and
\* whether or not it is in the directory.
C14_NoActivityNoAction ==
    (lcRun.status = "returned" /\ lcRun.run.check # "syncSuspensions") =>
        \A i \in 1..Len(lcRun.atlassianUsers) :
            LET id == lcRun.atlassianUsers[i].account_id
            IN NoActivityRecords(id) =>
                  /\ id \notin ActedOn(lcRun.run)
                  /\ id \notin lcRun.api.lookupFails => id \notin ErrorIds(lcRun.run)

\* An inactivity check looked up an account that has no activity record and
\* returned without reporting it.
C14_Witness ==
    /\ lcRun.status = "returned"
    /\ lcRun.run.check # "syncSuspensions"
    /\ \E id \in Range(lcRun.run.lookups) :
          /\ NoActivityRecords(id)
          /\ id \notin lcRun.api.lookupFails
          /\ id \notin ActedOn(lcRun.run) \cup ErrorIds(lcRun.run)

\* The accounts whose lookup or whose suspend / delete call failed in the
\* last run, and the ones whose activity could not be read.
FailedIds ==
    (lcRun.api.lookupFails \cap Range(lcRun.run.lookups))
    \cup (lcRun.api.mutateFails
            \cap (Range(lcRun.run.suspendCalls) \cup Range(lcRun.run.deleteCalls)))
UnreadableIds ==
    {lcRun.run.errors[i].accountId : i \in
        {j \in 1..Len(lcRun.run.errors) : lcRun.run.errors[j].cause = "RangeError"}}
ErrorsNaming(user) ==
    Cardinality({i \in 1..Len(lcRun.run.errors) :
                    /\ lcRun.run.errors[i].accountId = user.account_id
                    /\ lcRun.run.errors[i].email = user.email})

\* The status of the accounts a check walks.
WalkedStatus(check) == IF check = "check6MonthInactivity" THEN "inactive" ELSE "active"

\* The check got to the account: it looked it up, or, in syncSuspensions,
\* reported it or recorded its failure.
Evaluated(user) ==
    IF lcRun.run.check = "syncSuspensions"
    THEN \/ (~user.added_to_org.isNull
             /\ WholeDaysSince(user.added_to_org.value.t) <= lc.gracePeriodDays)
         \/ user.account_id \in IdsOf(lcRun.run.suspended) \cup ErrorIds(lcRun.run)
    ELSE user.account_id \in Range(lcRun.run.lookups)

\* C18: in each lifecycle check whose snapshots were read, an account whose
\* activity lookup or whose suspend / delete call failed has exactly one
\* error entry, with its email and id, and is in neither suspended nor
\* deleted; no other account has an entry, but for the ones whose activity
\* record cannot be read; every account of the walked status that is out of
\* the directory and off the allowlist is evaluated, whatever failed before
\* it; and the check returns its result.
C18_AccountFailureIsolated ==
    lcRun.status = "returned" =>
        /\ \A i \in 1..Len(lcRun.atlassianUsers) :
              LET user == lcRun.atlassianUsers[i]
                  id == user.account_id
              IN /\ id \in FailedIds =>
                       /\ ErrorsNaming(user) = 1
                       /\ id \notin IdsOf(lcRun.run.suspended) \cup IdsOf(lcRun.run.deleted)
                 /\ id \notin FailedIds \cup UnreadableIds => ErrorsNaming(user) = 0
                 /\ (user.account_status = WalkedStatus(lcRun.run.check) /\ Candidate(user))
                       => Evaluated(user)
        /\ Len(lcRun.run.errors) = Cardinality(FailedIds \cup UnreadableIds)
        /\ ErrorIds(lcRun.run) \subseteq
              {lcRun.atlassianUsers[i].account_id : i \in 1..Len(lcRun.atlassianUsers)}

\* The call for the first account failed and the check went on to report
\* the second one.
C18_Witness ==
    /\ lcRun.status = "returned"
    /\ ~lcRun.run.dryRun
    /\ Len(lcRun.atlassianUsers) = 2
    /\ Len(lcRun.run.errors) = 1
    /\ lcRun.run.errors[1].accountId = lcRun.atlassianUsers[1].account_id
    /\ lcRun.atlassianUsers[1].account_id \in lcRun.api.mutateFails
    /\ lcRun.atlassianUsers[2].account_id
          \in IdsOf(lcRun.run.suspended) \cup IdsOf(lcRun.run.deleted)

\* A run of syncMembers, of a lifecycle check or of the tenant listing that
\* raised.
GitHubRaised == syncResult.status = "raised"
LifecycleRaised == lcRun.status = "raised"
ListingRaised == pg.pc = "raised"

\* C19: a run in which the fetch of the directory snapshot, of the member
\* list or the pending invitations, or of the tenant snapshot throws, as the
\* tenant listing does when the directory id cannot be resolved, raises: it
\* has no result, has made no lookup and no invite, remove, suspend or
\* delete call, and leaves the organisation and the tenant as they were.
C19_FetchFailureRaises ==
    /\ [](GitHubRaised =>
            /\ syncResult.failed \in {"directory", "members", "invites"}
            /\ DOMAIN syncResult = {"status", "failed"})
    /\ [][(syncResult' # syncResult /\ syncResult'.status = "raised")
            => (members' = members /\ invites' = invites)]_vars
    /\ []((lcRun.status # "none" /\ lcRun.api.fetchFails # "none") =>
            /\ LifecycleRaised
            /\ lcRun.run.failed = lcRun.api.fetchFails
            /\ lcRun.run.suspended = <<>> /\ lcRun.run.deleted = <<>>
            /\ lcRun.run.errors = <<>> /\ lcRun.run.lookups = <<>>
            /\ lcRun.run.suspendCalls = <<>> /\ lcRun.run.deleteCalls = <<>>
            /\ (lcRun.api.fetchFails = "workspace" => lcRun.fetches = <<"workspace">>))
    /\ [][(lcRun' # lcRun /\ lcRun'.status = "raised") => env' = env]_vars
    /\ []((pg.pc # "idle" /\ pg.stop = "directoryId") =>
            /\ ListingRaised
            /\ pg.requests = <<>>
            /\ ~pg.result.returned)
    /\ [](ListingRaised => ~pg.result.returned)

\* A live check read the directory, failed on the tenant snapshot and
\* raised.
C19_Witness ==
    /\ LifecycleRaised
    /\ ~lcRun.run.dryRun
    /\ lcRun.run.failed = "tenant"
    /\ lcRun.fetches = <<"workspace", "tenant">>
    /\ Len(env.tenant) = 2

\* Two names or emails that are the same once lower-cased and trimmed.
SameNormalized(a, b) == normalizeEmail(a) = normalizeEmail(b)
LinkedUsernames ==
    {directory[i].GitHub_Username :
        i \in {j \in 1..Len(directory) : Truthy(directory[j].GitHub_Username)}}

\* C20: the decisions compare lower-cased and trimmed forms. syncMembers
\* looks up or invites no linked username that is, in that form, the login
\* of a member or of a pending invitation, and removes no member whose login
\* is, in that form, a linked username of the directory or an entry of
\* REMOVE_STOP_LIST; a lifecycle check acts on no account whose email is, in
\* that form, an email of the directory or an entry of the suspend-stop
\* allowlist.
C20_ComparisonsNormalized ==
    /\ syncResult.status = "returned" =>
          /\ \A u \in Range(syncResult.lookupCalls) \cup Range(syncResult.inviteCalls) :
                \A mb \in syncResult.currentMembers \cup syncResult.pendingInvites :
                    ~SameNormalized(u, mb)
          /\ \A mb \in Range(syncResult.removeCalls) \cup Range(syncResult.removed) :
                \A x \in LinkedUsernames \cup Range(removeStopList) :
                    ~SameNormalized(mb, x)
    /\ lcRun.status = "returned" =>
          \A i \in 1..Len(lcRun.atlassianUsers) :
              LET user == lcRun.atlassianUsers[i]
              IN user.account_id \in ActedOn(lcRun.run) =>
                    /\ \A j \in 1..Len(lcRun.workspaceUsers) :
                          ~SameNormalized(user.email, lcRun.workspaceUsers[j].primaryEmail)
                    /\ \A j \in 1..Len(lc.suspendStopList) :
                          ~SameNormalized(user.email, lc.suspendStopList[j])

\* The account has the email, lower-cased and trimmed, of a user of the
\* directory snapshot the run used.
InSnapshotDirectory(user) ==
    \E j \in 1..Len(lcRun.workspaceUsers) :
        normalizeEmail(user.email) = normalizeEmail(lcRun.workspaceUsers[j].primaryEmail)

\* C21: in each of the three lifecycle checks an account of the tenant
\* whose normalized email is the normalized primary email of a user of the
\* directory snapshot of the run is in neither suspended nor deleted, and no
\* suspendUser or deleteUser call is made for it.
C21_DirectoryUserNeverActedOn ==
    lcRun.status = "returned" =>
        \A i \in 1..Len(lcRun.atlassianUsers) :
            InSnapshotDirectory(lcRun.atlassianUsers[i]) =>
                lcRun.atlassianUsers[i].account_id \notin ActedOn(lcRun.run)

\* A live run left alone an account that is in the directory under another
\* spelling of its email, off the allowlist and with activity past the
\* threshold, and acted on the other account.
C21_Witness ==
    /\ lcRun.status = "returned"
    /\ ~lcRun.run.dryRun
    /\ lc.suspendStopList = <<>>
    /\ Len(lcRun.atlassianUsers) = 2
    /\ InSnapshotDirectory(lcRun.atlassianUsers[1])
    /\ lcRun.atlassianUsers[1].email \notin
          {lcRun.workspaceUsers[j].primaryEmail : j \in 1..Len(lcRun.workspaceUsers)}
    /\ lcRun.atlassianUsers[1].account_status = WalkedStatus(lcRun.run.check)
    /\ ~NoActivityRecords("a1")
    /\ ActedOn(lcRun.run) = {"a2"}

\* The status of an account in the tenant snapshot the run used.
SnapshotStatus(id) ==
    {lcRun.atlassianUsers[i].account_status :
        i \in {j \in 1..Len(lcRun.atlassianUsers) : lcRun.atlassianUsers[j].account_id = id}}

\* C22: suspendUser is called, and suspended filled, only for accounts the
\* tenant snapshot of the run has as active; deleteUser is called, and
\* deleted filled, only by check6MonthInactivity, only for accounts the
\* snapshot has as inactive and whose most recent activity is more than 180
\* whole days old.
C22_ActiveSuspendedDeleted ==
    lcRun.status = "returned" =>
        /\ \A id \in Range(lcRun.run.suspendCalls) \cup IdsOf(lcRun.run.suspended) :
              SnapshotStatus(id) = {"active"}
        /\ \A id \in Range(lcRun.run.deleteCalls) \cup IdsOf(lcRun.run.deleted) :
              /\ SnapshotStatus(id) = {"inactive"}
              /\ ValidActivity(id) # {}
              /\ WholeDaysSince(SetMax(ValidActivity(id))) > INACTIVITY_DELETION_DAYS
        /\ lcRun.run.check # "check6MonthInactivity" =>
              lcRun.run.deleteCalls = <<>> /\ lcRun.run.deleted = <<>>
        /\ lcRun.run.check = "check6MonthInactivity" =>
              lcRun.run.suspendCalls = <<>> /\ lcRun.run.suspended = <<>>

\* A live check6MonthInactivity looked up an inactive account last active
\* exactly 180 days ago, left it, and deleted the other one.
C22_Witness ==
    /\ lcRun.status = "returned"
    /\ lcRun.run.check = "check6MonthInactivity"
    /\ ~lcRun.run.dryRun
    /\ lcRun.run.lookups = <<"a1", "a2">>
    /\ env.activity["a1"] = Some(<<DaysAgo(INACTIVITY_DELETION_DAYS)>>)
    /\ lcRun.run.errors = <<>>
    /\ lcRun.run.deleteCalls = <<"a2">>
    /\ IdsOf(lcRun.run.deleted) = {"a2"}

EmptySlots ==
    /\ lc.cachedWorkspaceUsers = NoUsers /\ lc.cachedWorkspaceUsersTimestamp = NoTimestamp
    /\ lc.cachedAtlassianUsers = NoUsers /\ lc.cachedAtlassianUsersTimestamp = NoTimestamp

\* C23: after clearCache() payload and timestamp of both slots are empty,
\* and the check called next fetches the directory live and, that fetch
\* succeeding, the tenant live, whatever the slots held before; what it
\* fetched is what it uses and what the slots hold afterwards.
C23_ClearCacheForcesFetch ==
    /\ [](lcRun.status = "cleared" => EmptySlots)
    /\ [][(lcRun.status = "cleared" /\ lcRun'.status \in {"returned", "raised"}) =>
            /\ lcRun'.afterClear # "no"
            /\ lcRun'.fetches =
                  IF lcRun'.run.failed = "workspace"
                  THEN <<"workspace">> ELSE <<"workspace", "tenant">>
            /\ lcRun'.status = "returned" =>
                  /\ lcRun'.workspaceUsers = env.workspace
                  /\ lcRun'.atlassianUsers = env.tenant
                  /\ lc'.cachedWorkspaceUsers = Some(env.workspace)
                  /\ lc'.cachedWorkspaceUsersTimestamp = Some(now)
                  /\ lc'.cachedAtlassianUsers = Some(env.tenant)
                  /\ lc'.cachedAtlassianUsersTimestamp = Some(now)]_vars

\* Both slots were filled at the first instant, clearCache() was called, and
\* the check called at that same instant fetched both snapshots again.
C23_Witness ==
    /\ lcRun.status = "returned"
    /\ lcRun.afterClear = "filled"
    /\ now = Now0
    /\ lcRun.fetches = <<"workspace", "tenant">>

\* The accounts a check selects on the snapshots of the last run: what it
\* reports in dry-run mode, every lookup answering.
SelectedBy(check) ==
    LET r == CheckRun(check, [lc EXCEPT !.dryRun = TRUE], lcRun.workspaceUsers,
                      lcRun.atlassianUsers, env.activity, now, NoFailure)
    IN IdsOf(r.suspended) \cup IdsOf(r.deleted)

\* C26: on the same directory, tenant and activity snapshots no account is
\* selected by more than one of the three checks.
C26_ChecksDisjoint ==
    lcRun.status = "returned" =>
        \A c1, c2 \in CommandChecks :
            c1 # c2 => SelectedBy(c1) \cap SelectedBy(c2) = {}

\* check6MonthInactivity shares no account with the other two.
C26_DeletionDisjoint ==
    lcRun.status = "returned" =>
        \A c \in CommandChecks \ {"check6MonthInactivity"} :
            SelectedBy(c) \cap SelectedBy("check6MonthInactivity") = {}

\* The positions of the lookups and of the delays among the events of the
\* last run.
LookupAt == {i \in 1..Len(lcRun.run.events) : lcRun.run.events[i][1] = "lookup"}
DelayAt == {i \in 1..Len(lcRun.run.events) : lcRun.run.events[i][1] = "delay"}

\* C33: in the inactivity checks any two consecutive activity lookups of one
\* run are separated by the 2-second delay, whether the earlier lookup
\* answered with activity, answered without, or failed.
C33_LookupsSpaced ==
    (lcRun.status = "returned" /\ lcRun.run.check # "syncSuspensions") =>
        \A i, j \in LookupAt : i < j => \E k \in DelayAt : i < k /\ k < j

\* The delay is awaited after every lookup that answered.
C33_DelayAfterAnswer ==
    (lcRun.status = "returned" /\ lcRun.run.check # "syncSuspensions") =>
        \A i \in LookupAt :
            lcRun.run.events[i][2] \notin lcRun.api.lookupFails
                => /\ i + 1 \in DelayAt
                   /\ lcRun.run.events[i + 1][2] = RATE_LIMIT_DELAY

\* The accounts syncSuspensions selected in the last run, from the
\* snapshots it read.
SelectedForSuspension ==
    {i \in 1..Len(lcRun.atlassianUsers) :
        ToSuspend(lc, lcRun.atlassianUsers[i], workspaceEmailsOf(lcRun.workspaceUsers), now)}
SelectedIds == {lcRun.atlassianUsers[i].account_id : i \in SelectedForSuspension}

\* C36: in a syncSuspensions run every selected account ends in exactly one
\* of suspended and errors: the two lists together have as many entries as
\* there are selected accounts, name exactly these, and share none; the
\* result holds nothing else, whatever runs came before.
C36_SuspendedOrError ==
    (lcRun.status = "returned" /\ lcRun.run.check = "syncSuspensions") =>
        /\ Len(lcRun.run.suspended) + Len(lcRun.run.errors)
              = Cardinality(SelectedForSuspension)
        /\ IdsOf(lcRun.run.suspended) \cup ErrorIds(lcRun.run) = SelectedIds
        /\ IdsOf(lcRun.run.suspended) \cap ErrorIds(lcRun.run) = {}
        /\ lcRun.run.deleted = <<>>

\* A live run selected two accounts again that an earlier run had
\* suspended: one is in suspended, the other, whose call threw, in errors.
C36_Witness ==
    /\ lcRun.status = "returned" /\ lcRun.run.check = "syncSuspensions"
    /\ ~lcRun.run.dryRun
    /\ Cardinality(SelectedForSuspension) = 2
    /\ IdsOf(lcRun.run.suspended) = {"a1"}
    /\ ErrorIds(lcRun.run) = {"a2"}
    /\ \A i \in 1..Len(env.tenant) : env.tenant[i].account_status = "inactive"

(***************************************************************************)
(* Claims on the process (checked under SpecApp)                           *)
(***************************************************************************)

\* C25: the directory id is resolved by at most one successful request per
\* client instance.
C25_ResolvedOnce == app.directoryIdRequests <= 1

\* A listing that finds the id stored sends its users request at once.
C25_StoredIdReused ==
    [][\A t \in Tasks :
          (app.directoryId /\ app.task[t].pc = "gotWorkspace"
              /\ app'.task[t].pc # "gotWorkspace")
          => /\ app'.task[t].pc \in {"gotTenant", "fetchingTenant"}
             /\ app'.directoryIdRequests = app.directoryIdRequests]_vars

\* The tasks that are inside a lifecycle check.
Running == {t \in Tasks : app.task[t].pc \in InCheck}

\* C27: at any time at most one of the three checks is in progress, the two
\* cron jobs being on their default schedules.
C27_OneCheckAtATime ==
    \A t1, t2 \in CronTasks : {t1, t2} \subseteq Running => t1 = t2

\* C28: nothing excludes a command and a scheduled run from one another: a
\* command, a cron job that is due and the second half of syncPeriodically
\* go ahead whatever else is inside a check, on the one set of cache slots,
\* and a task that is handed no snapshot fetches its own.
C28_NothingExcluded ==
    /\ \A t \in Commands : app.task[t].pc = "idle" => ENABLED Command(t)
    /\ \A t \in CronTasks :
          (app.task[t].pc = "idle" /\ Fires(ScheduleOf(t), app.clock))
              => ENABLED CronFires(t)
    /\ \A t \in Tasks : app.task[t].pc = "github" => ENABLED GitHubSyncSettles(t)
    /\ \A t \in Running :
          /\ app.task[t].pc = "fetchingWorkspace"
                => app.task[t].workspaceUsers = NoSnapshot
          /\ app.task[t].pc \in {"fetchingDirectoryId", "fetchingTenant"}
                => app.task[t].atlassianUsers = NoSnapshot

\* The command and the inactivity job, each on snapshots it fetched itself,
\* have both called suspendUser for the account.
C28_Witness ==
    /\ \A t \in {"command", "suspendAtlassianUsersPeriodically"} :
          /\ app.task[t].pc = "mutating"
          /\ app.task[t].called = "suspendUser"
          /\ app.task[t].workspaceUsers.by = t
          /\ app.task[t].atlassianUsers.by = t

\* The tasks that hold both snapshots and compute on them.
Computing == {t \in Tasks : app.task[t].pc \in {"gotTenant", "mutating"}}

\* C29: a command computes on a directory snapshot and a tenant snapshot
\* whose fetch started after the command cleared the cache.
C29_CommandSnapshotsFresh ==
    \A t \in Commands \cap Computing :
        /\ app.task[t].cleared
        /\ app.task[t].workspaceUsers.by = t
        /\ app.task[t].atlassianUsers.by \notin app.task[t].startedBefore

\* The directory snapshot of a command is always the one it fetched itself.
C29_CommandDirectoryOwn ==
    \A t \in Commands :
        app.task[t].pc \in InCheck \ {"fetchingWorkspace"}
            => app.task[t].workspaceUsers.by = t

\* C30: a scheduled run never computes on a snapshot that was fetched by a
\* scheduled run or a command that had returned before it called its check.
C30_ScheduledRunOwnSnapshots ==
    \A t \in CronTasks \cap Computing :
        /\ app.task[t].workspaceUsers.by \notin app.task[t].earlier
        /\ app.task[t].atlassianUsers.by \notin app.task[t].earlier

\* A slot that a read at the present time would serve.
Servable(payload, timestamp) == ~payload.isNull /\ isCacheValid(timestamp, now)

\* C38: a check whose directory fetch throws raises and leaves both slots as
\* they were; a check whose tenant fetch throws raises and leaves the
\* tenant slot as it was, the directory slot being what the directory
\* read before it made of it.  The slot whose fetch threw was empty or
\* expired, and what it held, if anything, is still stored with its old
\* timestamp.
C38_FailedFetchKeepsSlots ==
    [][(lcRun'.status = "raised" /\ <<lc, lcRun>>' # <<lc, lcRun>>) =>
          /\ lcRun'.run.failed = "workspace" =>
                /\ lc' = lc
                /\ ~Servable(lc.cachedWorkspaceUsers, lc.cachedWorkspaceUsersTimestamp)
          /\ lcRun'.run.failed = "tenant" =>
                /\ lc'.cachedAtlassianUsers = lc.cachedAtlassianUsers
                /\ lc'.cachedAtlassianUsersTimestamp = lc.cachedAtlassianUsersTimestamp
                /\ ~Servable(lc.cachedAtlassianUsers, lc.cachedAtlassianUsersTimestamp)
                /\ IF Servable(lc.cachedWorkspaceUsers, lc.cachedWorkspaceUsersTimestamp)
                   THEN /\ lc'.cachedWorkspaceUsers = lc.cachedWorkspaceUsers
                        /\ lc'.cachedWorkspaceUsersTimestamp = lc.cachedWorkspaceUsersTimestamp
                   ELSE /\ lc'.cachedWorkspaceUsers = Some(env.workspace)
                        /\ lc'.cachedWorkspaceUsersTimestamp = Some(now)
          /\ lcRun'.run.failed \in {"workspace", "tenant"}
          /\ UNCHANGED <<lc.suspendStopList, lc.dryRun, lc.gracePeriodDays>>]_vars

\* Both slots had expired; the directory was fetched again, the tenant
\* listing threw, and the expired tenant payload is still stored with its
\* old timestamp.
C38_Witness ==
    /\ lcRun.status = "raised"
    /\ lcRun.run.failed = "tenant"
    /\ lcRun.fetches = <<"workspace", "tenant">>
    /\ lc.cachedWorkspaceUsersTimestamp = Some(now)
    /\ ~lc.cachedAtlassianUsers.isNull
    /\ ~lc.cachedAtlassianUsersTimestamp.isNull
    /\ ~isCacheValid(lc.cachedAtlassianUsersTimestamp, now)

\* C39: the suspendUser and deleteUser calls of a check leave both slots
\* as the reads of that check left them: a slot changes only by clearCache
\* or by a read that found it empty or expired, and then holds what the
\* API listed before the calls of the run.
C39_CallsLeaveCache ==
    [][/\ (lc'.cachedAtlassianUsers # lc.cachedAtlassianUsers
              \/ lc'.cachedAtlassianUsersTimestamp # lc.cachedAtlassianUsersTimestamp)
          => \/ lcRun'.status = "cleared"
             \/ /\ ~Servable(lc.cachedAtlassianUsers, lc.cachedAtlassianUsersTimestamp)
                /\ lc'.cachedAtlassianUsers = Some(env.tenant)
                /\ lc'.cachedAtlassianUsersTimestamp = Some(now)
       /\ (lc'.cachedWorkspaceUsers # lc.cachedWorkspaceUsers
              \/ lc'.cachedWorkspaceUsersTimestamp # lc.cachedWorkspaceUsersTimestamp)
          => \/ lcRun'.status = "cleared"
             \/ /\ ~Servable(lc.cachedWorkspaceUsers, lc.cachedWorkspaceUsersTimestamp)
                /\ lc'.cachedWorkspaceUsers = Some(env.workspace)
                /\ lc'.cachedWorkspaceUsersTimestamp = Some(now)
       /\ (lcRun' # lcRun /\ lcRun'.status = "returned")
          => /\ lc'.cachedAtlassianUsers = Some(lcRun'.atlassianUsers)
             /\ lc'.cachedWorkspaceUsers = Some(lcRun'.workspaceUsers)]_vars

\* A live run suspended the account; the tenant has it inactive, the slot
\* still serves the snapshot that lists it as active.
C39_Witness ==
    /\ lcRun.status = "returned"
    /\ ~lcRun.run.dryRun
    /\ lcRun.run.suspendCalls = <<"a1">>
    /\ IdsOf(lcRun.run.suspended) = {"a1"}
    /\ env.tenant[1].account_status = "inactive"
    /\ Servable(lc.cachedAtlassianUsers, lc.cachedAtlassianUsersTimestamp)
    /\ lc.cachedAtlassianUsers.value[1].account_status = "active"

\* The two slots of the process: payload and timestamp.
Slots ==
    {<<app.cachedWorkspaceUsers, app.cachedWorkspaceUsersTimestamp>>,
     <<app.cachedAtlassianUsers, app.cachedAtlassianUsersTimestamp>>}

\* C37: between awaits each slot is consistent: the payload is null exactly
\* when the timestamp is null, and a timestamp is the time at which the
\* fetch of the stored payload completed.
C37_SlotsConsistent ==
    \A slot \in Slots :
        /\ slot[1].isNull <=> slot[2].isNull
        /\ ~slot[1].isNull => slot[2].value = slot[1].value.at
        /\ slot[1].isNull => slot[1] = NoCached /\ slot[2] = NoTimestamp

\* A command cleared the cache while the listing of a scheduled run was in
\* flight; ten minutes later the listing completed and filled the tenant
\* slot, the directory slot holding the command's fetch of the time before.
C37_Witness ==
    /\ ~app.cachedAtlassianUsers.isNull
    /\ app.cachedAtlassianUsers.value.by \in CronTasks
    /\ app.cachedAtlassianUsersTimestamp = Some(CACHE_TTL)
    /\ ~app.cachedWorkspaceUsers.isNull
    /\ app.cachedWorkspaceUsers.value.by \in Commands
    /\ app.cachedWorkspaceUsersTimestamp = Some(0)
    /\ \E t \in Commands : app.task[t].pc = "gotWorkspace" /\ app.task[t].cleared

(***************************************************************************)
(* Claims on the two allowlists (checked under SpecLists)                  *)
(***************************************************************************)
\* The account is old enough for the check of the last run to act on it.
PastThreshold(user) ==
    \/ lcRun.run.check = "syncSuspensions"
    \/ /\ ~NoActivityData(env.activity[user.account_id])
       /\ calculateDaysSince(getMostRecentActivity(env.activity[user.account_id].value), now)
             > ThresholdOf(lcRun.run.check)

\* What a lifecycle check goes by: status, directory, suspend-stop
\* allowlist, age.
Eligible(user) ==
    /\ user.account_status = WalkedStatus(lcRun.run.check)
    /\ normalizeEmail(user.email) \notin workspaceEmailsOf(lcRun.workspaceUsers)
    /\ normalizeEmail(user.email) \notin Range(lc.suspendStopList)
    /\ ~isWithinGracePeriod(user.added_to_org, lc.gracePeriodDays, now)
    /\ PastThreshold(user)

\* C34: an allowlist suppresses one category of mutation only.  A wanted
\* username that is neither member nor pending is looked up for invitation
\* also when it is on the never-remove allowlist; removal goes by the
\* never-remove allowlist alone, suspension and deletion by the suspend-stop
\* allowlist alone.
C34_AllowlistsSeparate ==
    /\ syncResult.status = "returned" =>
          /\ Range(syncResult.lookupCalls) =
                {u \in Range(workspaceGitHubUsernames(directory)) :
                    u \notin syncResult.currentMembers /\ u \notin syncResult.pendingInvites}
          /\ Range(syncResult.removeCalls) =
                {mb \in syncResult.currentMembers :
                    /\ mb \notin Range(workspaceGitHubUsernames(directory))
                    /\ mb \notin Range(removeStopList)}
    /\ lcRun.status = "returned" =>
          \A i \in 1..Len(lcRun.atlassianUsers) :
              LET user == lcRun.atlassianUsers[i]
              IN /\ user.account_id \in ActedOn(lcRun.run) => Eligible(user)
                 /\ (Eligible(user) /\ user.account_id \notin lcRun.api.lookupFails)
                       => user.account_id \in ActedOn(lcRun.run)

\* carol, on both lists, was invited, and Ann, whose email is on the
\* never-remove allowlist, was suspended.
C34_Witness ==
    /\ syncResult.status = "returned"
    /\ Len(syncResult.invited) = 1
    /\ syncResult.invited[1].username \in Range(removeStopList)
    /\ Str("carol") \in Range(lc.suspendStopList)
    /\ lcRun.status = "returned"
    /\ lcRun.run.suspendCalls = <<"a1">>
    /\ IdsOf(lcRun.run.suspended) = {"a1"}
    /\ Str("ann@x") \in Range(removeStopList)

(***************************************************************************)
(* Claims on what a result reports (checked under SpecRuns)                *)
(***************************************************************************)
\* The mutation calls of the last lifecycle run, and those that threw.
MutationCalls == Range(lcRun.run.suspendCalls) \cup Range(lcRun.run.deleteCalls)
MutationsThrown == lcRun.api.mutateFails \cap MutationCalls

\* C35: in a live run an account is in suspended or deleted only when its
\* suspendUser or deleteUser call was made in that run and did not throw,
\* and an account whose call threw is in errors and in neither list; a
\* username is in invited or removed of syncMembers only when its
\* createInvitation or removeMember call was made and did not throw.
C35_ReportedAfterSuccess ==
    /\ (now # 0 /\ lcRun.status = "returned" /\ ~lcRun.run.dryRun) =>
          /\ IdsOf(lcRun.run.suspended) \subseteq
                Range(lcRun.run.suspendCalls) \ lcRun.api.mutateFails
          /\ IdsOf(lcRun.run.deleted) \subseteq
                Range(lcRun.run.deleteCalls) \ lcRun.api.mutateFails
          /\ MutationsThrown \subseteq ErrorIds(lcRun.run)
          /\ Len(lcRun.run.suspended) + Len(lcRun.run.deleted) + Cardinality(MutationsThrown)
                = Len(lcRun.run.suspendCalls) + Len(lcRun.run.deleteCalls)
    /\ (now = 0 /\ syncResult.status = "returned") =>
          /\ InvitedUsernames(syncResult) = Range(syncResult.inviteCalls) \ syncResult.threw
          /\ Range(syncResult.removed) = Range(syncResult.removeCalls) \ syncResult.threw
          /\ \A u \in syncResult.threw : ErrorsFor(u) = 1

\* Of two accounts the live run called suspendUser for, the call for the
\* first threw: it is in errors, the second alone in suspended.
C35_Witness ==
    /\ now # 0 /\ lcRun.status = "returned" /\ ~lcRun.run.dryRun
    /\ lcRun.run.suspendCalls = <<"a1", "a2">>
    /\ lcRun.api.mutateFails = {"a1"}
    /\ IdsOf(lcRun.run.suspended) = {"a2"}
    /\ ErrorIds(lcRun.run) = {"a1"}

=============================================================================
